---------------------------- MODULE Spec2Model ----------------------------
(***************************************************************************)
(* Model of the SplunkAgent investigation engine: the service catalog,     *)
(* the result analyzer, the investigation orchestrator, the root-cause     *)
(* ranker and the confidence scorer.                                       *)
(*                                                                         *)
(* Strings that the code inspects (lower(), substring tests) are modelled  *)
(* as sequences of one-character strings, so that the fuzzy matching of    *)
(* the catalog is computed, not assumed.  Strings that the code only       *)
(* compares for equality are TLA+ strings.                                 *)
(***************************************************************************)
EXTENDS Integers, Sequences, FiniteSets, TLC

(***************************************************************************)
(* Bounds of the model.                                                    *)
(***************************************************************************)
\* Largest number of hypotheses the language model returns.
MaxHyp == 2

(***************************************************************************)
(* Strings.                                                                *)
(***************************************************************************)
UpperChars == <<"A", "P", "I", "D", "B", "E", "R", "O">>
LowerChars == <<"a", "p", "i", "d", "b", "e", "r", "o">>

\* str.lower() on one character of the model's alphabet.
LowerChar(c) ==
    IF \E k \in 1..Len(UpperChars) : UpperChars[k] = c
    THEN LowerChars[CHOOSE k \in 1..Len(UpperChars) : UpperChars[k] = c]
    ELSE c

\* str.lower()
Lower(s) == [k \in 1..Len(s) |-> LowerChar(s[k])]

\* Python's `needle in hay` on strings.
StrIn(needle, hay) ==
    \E k \in 0..(Len(hay) - Len(needle)) :
        SubSeq(hay, k + 1, k + Len(needle)) = needle

\* Smallest element of a non-empty set of integers.
MinOf(S) == CHOOSE x \in S : \A y \in S : x <= y

\* Largest element of a non-empty set of integers.
MaxOf(S) == CHOOSE x \in S : \A y \in S : y <= x

\* The elements of a sequence.
Range(s) == {s[k] : k \in 1..Len(s)}

\* Python's `x in list`.
InList(x, s) == \E k \in 1..Len(s) : s[k] = x

(***************************************************************************)
(* Names used by the catalogs and the intents of the model.                *)
(***************************************************************************)
Api  == <<"a", "p", "i">>
ApiU == <<"A", "P", "I">>
Db   == <<"d", "b">>
Mq   == <<"m", "q">>
Ex   == <<"e", "x">>
Zz   == <<"z", "z">>
I1   == <<"i", "1">>
I2   == <<"i", "2">>
I3   == <<"i", "3">>
I9   == <<"i", "9">>
E1   == <<"t", "x", "7">>

Dep(s, modes) == [service |-> s, failure_modes |-> modes]

Service(id, indexes, upstream) ==
    [id |-> id, service_id |-> id, primary_indexes |-> indexes, upstream |-> upstream]

\* The catalogs the model loads: `services` of service-catalog.json, in the
\* file's order.  CatalogA: api depends on db (with failure modes) and on mq.
\* CatalogB: api and db depend on each other, api also on ex, which the
\* catalog does not hold, and db names api a second time in upper case.
\* CatalogEmpty: the file is missing.
CatalogA ==
    << Service(Api, <<I1>>, <<Dep(Db, <<"timeout">>), Dep(Mq, <<>>)>>),
       Service(Db, <<I2>>, <<>>),
       Service(Mq, <<I3>>, <<>>) >>

CatalogB ==
    << Service(Api, <<I1>>, <<Dep(Db, <<>>), Dep(Ex, <<>>)>>),
       Service(Db, <<I2>>, <<Dep(Api, <<"timeout">>), Dep(ApiU, <<>>)>>) >>

CatalogEmpty == << >>

Catalogs == {CatalogA, CatalogB, CatalogEmpty}

(***************************************************************************)
(* ServiceCatalog (shared/service_catalog.py).  `cat` is self.services.    *)
(* An Optional result is a sequence of length 0 (None) or 1.               *)
(***************************************************************************)
find_service(cat, service_name) ==
    LET lower == Lower(service_name)
        exact == {k \in 1..Len(cat) : cat[k].id = service_name}
        ci    == {k \in 1..Len(cat) : Lower(cat[k].id) = lower}
        part  == {k \in 1..Len(cat) :
                     StrIn(lower, Lower(cat[k].id)) \/ StrIn(Lower(cat[k].id), lower)}
    IN  IF exact # {} THEN <<cat[MinOf(exact)]>>
        ELSE IF ci # {} THEN <<cat[MinOf(ci)]>>
        ELSE IF part # {} THEN <<cat[MinOf(part)]>>
        ELSE << >>

RECURSIVE find_services_by_entities(_, _)
find_services_by_entities(cat, entities) ==
    IF entities = << >> THEN << >>
    ELSE find_service(cat, Head(entities)) \o find_services_by_entities(cat, Tail(entities))

get_splunk_indexes(cat, service_id) ==
    LET service == find_service(cat, service_id)
    IN  IF service = << >> THEN << >> ELSE service[1].primary_indexes

get_upstream_dependencies(cat, service_id) ==
    LET service == find_service(cat, service_id)
    IN  IF service = << >> THEN << >> ELSE service[1].upstream

\* The ids of the services whose upstream list names service_id, in catalog
\* order, once per naming entry.
RECURSIVE downstream_from(_, _, _)
downstream_from(cat, service_id, k) ==
    IF k > Len(cat) THEN << >>
    ELSE LET hits == SelectSeq(cat[k].upstream, LAMBDA dep : dep.service = service_id)
         IN  [j \in 1..Len(hits) |-> cat[k].id] \o downstream_from(cat, service_id, k + 1)

get_downstream_dependencies(cat, service_id) == downstream_from(cat, service_id, 1)

\* The id of the first service that lists the index, or None.
find_service_by_index(cat, index) ==
    LET owners == {k \in 1..Len(cat) : InList(index, cat[k].primary_indexes)}
    IN  IF owners = {} THEN << >> ELSE <<cat[MinOf(owners)].id>>

\* list(self.services.keys())
service_keys(cat) == [k \in 1..Len(cat) |-> cat[k].id]


(***************************************************************************)
(* ResultAnalyzer (analyzer/analyzer.py).  A record is a sequence of       *)
(* <<key, value>> pairs in the record's key order; a key is a TLA+ string, *)
(* a value a string of characters.                                         *)
(***************************************************************************)
RECURSIVE Flatten(_)
Flatten(seqs) == IF seqs = << >> THEN << >> ELSE Head(seqs) \o Flatten(Tail(seqs))

\* The elements of a sequence in order of first occurrence.
RECURSIVE Dedupe(_)
Dedupe(s) ==
    IF s = << >> THEN << >>
    ELSE LET init == Dedupe(SubSeq(s, 1, Len(s) - 1))
         IN  IF InList(s[Len(s)], init) THEN init ELSE Append(init, s[Len(s)])

\* The number of elements of a sequence that satisfy a test.
CountIf(s, Test(_)) == Cardinality({k \in 1..Len(s) : Test(s[k])})

\* field_counts: the <<key, value>> pairs of all records, without the
\* internal fields.
field_pairs(results) ==
    SelectSeq(Flatten(results), LAMBDA kv : kv[1] \notin {"_time", "_raw"})

\* The cardinality above which a field is not a pattern.
LowCardinality == 5

\* One finding of `field`: its most frequent value (the first one on a tie).
pattern_of(results, field, entities, symptom_keywords) ==
    LET pairs   == field_pairs(results)
        values  == Dedupe([k \in 1..Len(SelectSeq(pairs, LAMBDA kv : kv[1] = field))
                              |-> SelectSeq(pairs, LAMBDA kv : kv[1] = field)[k][2]])
        count(v) == CountIf(pairs, LAMBDA kv : kv = <<field, v>>)
        best    == MaxOf({count(values[k]) : k \in 1..Len(values)})
        top     == values[MinOf({k \in 1..Len(values) : count(values[k]) = best})]
        value_str == Lower(top)
        matches_entity  == \E k \in 1..Len(entities) :
                               StrIn(entities[k], value_str) \/ StrIn(value_str, entities[k])
        matches_keyword == \E k \in 1..Len(symptom_keywords) :
                               StrIn(symptom_keywords[k], value_str)
                               \/ StrIn(value_str, symptom_keywords[k])
    IN  [ field          |-> field,
          pattern        |-> top,
          count          |-> best,
          cardinality    |-> Len(values),
          significance   |-> IF matches_entity \/ matches_keyword THEN "high"
                             ELSE IF 2 * best > Len(results) THEN "high"
                             ELSE "medium",
          matches_intent |-> matches_entity \/ matches_keyword ]

\* Patterns left in the order of their fields.
sort_patterns_skipped(patterns) == patterns

\* patterns.sort(key=(matches_intent, significance == "high"), reverse=True):
\* a stable sort, descending.
sort_patterns(patterns) ==
    LET rank(p) == (IF p.matches_intent THEN 2 ELSE 0)
                   + (IF p.significance = "high" THEN 1 ELSE 0)
        tier(r) == SelectSeq(patterns, LAMBDA p : rank(p) = r)
    IN  tier(3) \o tier(2) \o tier(1) \o tier(0)

\* The `cardinality` of a pattern is the model's own field: the code drops
\* the field's counts after the test on them.
\* lines 43-85: the patterns of the low-cardinality fields, in the order
\* in which the records bring the fields.
low_cardinality_patterns(results, intent) ==
    LET entities == [k \in 1..Len(intent.entities) |-> Lower(intent.entities[k])]
        keywords == [k \in 1..Len(intent.symptom_keywords)
                        |-> Lower(intent.symptom_keywords[k])]
        pairs    == field_pairs(results)
        fields   == Dedupe([k \in 1..Len(pairs) |-> pairs[k][1]])
        all      == [k \in 1..Len(fields)
                        |-> pattern_of(results, fields[k], entities, keywords)]
    IN  SelectSeq(all, LAMBDA p : p.cardinality <= LowCardinality)

_extract_patterns(results, intent) ==
    sort_patterns(low_cardinality_patterns(results, intent))

\* The number of findings that make the evidence of a step sufficient.
SufficientFindings == 2

analyze(query_results, intent) ==
    LET findings == IF query_results.total_count > 0
                    THEN _extract_patterns(query_results.results, intent)
                    ELSE << >>
    IN  [ findings            |-> findings,
          result_count        |-> query_results.total_count,
          sufficient_evidence |-> query_results.total_count > 0
                                  /\ Len(findings) >= SufficientFindings ]

(***************************************************************************)
(* SplunkClient.search (splunk_integration/client.py) and                  *)
(* SplunkQueryGenerator.execute_query.  `outcome` is what Splunk does:     *)
(* "ok" (the records come back), "not_configured", "connect_failed" or     *)
(* "search_failed".  The client answers every failure with an empty        *)
(* result.  execute_query returns <<"ok", results>> or <<"raise">>.        *)
(***************************************************************************)
SplunkOutcomes == {"ok", "not_configured", "connect_failed", "search_failed"}

EmptyResults == [results |-> << >>, total_count |-> 0, error |-> TRUE]

\* A search that lets its failures out instead of degrading to no records.
search_propagating(outcome, records) ==
    IF outcome = "ok"
    THEN <<"ok", [results |-> records, total_count |-> Len(records), error |-> FALSE]>>
    ELSE <<"raise">>

search(outcome, records) ==
    IF outcome = "ok"
    THEN <<"ok", [results |-> records, total_count |-> Len(records), error |-> FALSE]>>
    ELSE <<"ok", EmptyResults>>

execute_query(outcome, records) == search(outcome, records)


(***************************************************************************)
(* QueryGuardrails.validate_query and SplunkQueryGenerator.generate_query. *)
(* A query the language model writes is a record: whether it holds one of  *)
(* DANGEROUS_COMMANDS, and its length.  generate_query returns             *)
(* <<"ok", query>> or <<"raise">> (ValidationError).                       *)
(***************************************************************************)
MaxQueryLength == 10000

QSafe   == [text |-> "index=i1 error", dangerous |-> FALSE, length |-> 14]
QDelete == [text |-> "index=i1 | delete", dangerous |-> TRUE, length |-> 17]
QLong   == [text |-> "index=i1 ...", dangerous |-> FALSE, length |-> MaxQueryLength + 1]

LLMQueries == {QSafe, QDelete, QLong}

validate_query(query) == ~query.dangerous /\ query.length <= MaxQueryLength

generate_query(query) ==
    IF validate_query(query) THEN <<"ok", query.text>> ELSE <<"raise">>

(***************************************************************************)
(* The intents the planning engine may extract, and the record sets a      *)
(* query may return.                                                       *)
(***************************************************************************)
Err == <<"e", "r", "r">>
Wrn == <<"w", "r", "n">>
H1  == <<"h", "1">>
H2  == <<"h", "2">>

Intent(services, indexes, entities, keywords) ==
    [services |-> services, indexes |-> indexes, entities |-> entities,
     symptom_keywords |-> keywords]

Intents ==
    { Intent(<< >>, << >>, << >>, << >>),
      Intent(<<Zz>>, << >>, << >>, << >>),
      Intent(<<ApiU>>, << >>, << >>, <<Wrn>>),
      Intent(<< >>, <<I2>>, << >>, << >>),
      Intent(<< >>, <<I9>>, << >>, << >>),
      Intent(<< >>, << >>, <<E1>>, << >>),
      Intent(<<Api, Db>>, << >>, << >>, << >>) }

\* No record.
RNone == << >>
\* One record: one finding, high (1 of 1).
ROneHigh == << <<<<"level", Err>>>> >>
\* Two equal records with two fields: two findings, both high.
RTwoHigh == << <<<<"level", Err>>, <<"host", H1>>>>, <<<<"level", Err>>, <<"host", H1>>>> >>
\* Two records that differ in both fields: two findings, medium unless the
\* intent names the value.
RTwoMedium == << <<<<"level", Wrn>>, <<"host", H1>>>>, <<<<"level", Err>>, <<"host", H2>>>> >>

ResultSets == {RNone, ROneHigh, RTwoHigh, RTwoMedium}

\* The record lists an upstream search returns.
UpstreamResultSets == {RNone, RTwoHigh}

(***************************************************************************)
(* PlanningEngine.generate_hypotheses.  `response` is what the language    *)
(* model answers: <<"fail">> (the call fails), <<"unparseable">> (the       *)
(* answer is not JSON, or not a list of hypothesis objects), or            *)
(* <<"ok", priorities>>, one priority per hypothesis, in the answer's      *)
(* order.                                                                  *)
(***************************************************************************)
HypName(k) == CASE k = 1 -> "h1" [] k = 2 -> "h2" [] k = 3 -> "h3" [] OTHER -> "h4"

Priorities == {1, 2}

\* hypotheses.sort(key=priority): a stable sort, ascending.
sort_by_priority(hyps) ==
    SelectSeq(hyps, LAMBDA h : h.priority = 1) \o SelectSeq(hyps, LAMBDA h : h.priority = 2)

_generate_fallback_hypotheses ==
    << [hypothesis |-> "Check for error logs matching the symptom", priority |-> 1],
       [hypothesis |-> "Check for service outages or degradation", priority |-> 2] >>

\* A generator that answers a failure with no hypothesis at all.
generate_hypotheses_without_fallback(response) ==
    IF response[1] = "ok"
    THEN sort_by_priority([k \in 1..Len(response[2])
                              |-> [hypothesis |-> HypName(k), priority |-> response[2][k]]])
    ELSE << >>

\* lines 326-369: both except clauses return the fallback.
generate_hypotheses(response) ==
    IF response[1] = "ok"
    THEN sort_by_priority([k \in 1..Len(response[2])
                              |-> [hypothesis |-> HypName(k), priority |-> response[2][k]]])
    ELSE _generate_fallback_hypotheses

HypResponses ==
    {<<"fail">>, <<"unparseable">>} \cup {<<"ok", ps>> : ps \in UNION {[1..n -> Priorities] : n \in 0..MaxHyp}}


(***************************************************************************)
(* MemoryRetrieval (memory/retrieval.py, memory/vector_store.py).          *)
(* `outcome` is what the incident store does: "ok_empty", "ok_incidents"   *)
(* or "db_error" (the connection pool cannot be created, or a statement    *)
(* fails).  Both calls return <<"ok", value>> or <<"raise">>.              *)
(***************************************************************************)
MemoryOutcomes == {"ok_empty", "ok_incidents", "db_error"}

retrieve_relevant_incidents(outcome) ==
    CASE outcome = "ok_empty"     -> <<"ok", << >>>>
      [] outcome = "ok_incidents" -> <<"ok", <<"incident">>>>
      [] OTHER                    -> <<"raise">>

store_investigation(outcome) ==
    IF outcome = "db_error" THEN <<"raise">> ELSE <<"ok", "stored">>

(***************************************************************************)
(* RCAEngine (analyzer/rca_engine.py).  A confidence is held in            *)
(* hundredths.  A result record has the fields the engine reads: index,    *)
(* _time (0 when the record has none; timestamps of one format order as    *)
(* their numbers do), level and _raw.  A finding has field, pattern,       *)
(* count, significance and index (the empty string when it has none).      *)
(***************************************************************************)
\* The keyword table of _categorize_error, in the order it is tried.
ErrorCategories ==
    << [category |-> "timeout",
        keywords |-> << <<"t", "i", "m", "e", "o", "u", "t">>,
                      <<"t", "i", "m", "e", "d", " ", "o", "u", "t">>,
                      <<"d", "e", "a", "d", "l", "i", "n", "e", " ", "e", "x", "c", "e", "e", "d", "e", "d">> >>],
       [category |-> "connection_error",
        keywords |-> << <<"c", "o", "n", "n", "e", "c", "t", "i", "o", "n", " ", "r", "e", "f", "u", "s", "e", "d">>,
                      <<"c", "o", "n", "n", "e", "c", "t", " ", "e", "r", "r", "o", "r">>,
                      <<"n", "e", "t", "w", "o", "r", "k">> >>],
       [category |-> "server_error_5xx",
        keywords |-> << <<"5", "0", "0">>,
                      <<"5", "0", "2">>,
                      <<"5", "0", "3">>,
                      <<"5", "0", "4">>,
                      <<"5", "x", "x">>,
                      <<"i", "n", "t", "e", "r", "n", "a", "l", " ", "s", "e", "r", "v", "e", "r">> >>],
       [category |-> "not_found",
        keywords |-> << <<"4", "0", "4">>,
                      <<"n", "o", "t", " ", "f", "o", "u", "n", "d">> >>],
       [category |-> "auth_error",
        keywords |-> << <<"4", "0", "1">>,
                      <<"4", "0", "3">>,
                      <<"u", "n", "a", "u", "t", "h", "o", "r", "i", "z", "e", "d">>,
                      <<"f", "o", "r", "b", "i", "d", "d", "e", "n">>,
                      <<"a", "u", "t", "h">> >>],
       [category |-> "null_reference",
        keywords |-> << <<"n", "u", "l", "l">>,
                      <<"u", "n", "d", "e", "f", "i", "n", "e", "d">>,
                      <<"n", "o", "n", "e">>,
                      <<"n", "u", "l", "l", "p", "o", "i", "n", "t", "e", "r">> >>],
       [category |-> "general_error",
        keywords |-> << <<"e", "x", "c", "e", "p", "t", "i", "o", "n">>,
                      <<"e", "r", "r", "o", "r">>,
                      <<"f", "a", "i", "l", "e", "d">>,
                      <<"f", "a", "i", "l", "u", "r", "e">> >>] >>

\* _categorize_error on the text of a finding's pattern or a record's _raw
_categorize_error(text) ==
    LET lower == Lower(text)
        hits  == {k \in 1..Len(ErrorCategories) :
                     \E j \in 1..Len(ErrorCategories[k].keywords) :
                         StrIn(ErrorCategories[k].keywords[j], lower)}
    IN  IF hits = {} THEN "unknown" ELSE ErrorCategories[MinOf(hits)].category

ErrorLevels == {<<"e", "r", "r", "o", "r">>, <<"f", "a", "t", "a", "l">>, <<"c", "r", "i", "t", "i", "c", "a", "l">>}

ErrorWords == {<<"e", "r", "r", "o", "r">>,
               <<"e", "x", "c", "e", "p", "t", "i", "o", "n">>,
               <<"f", "a", "i", "l", "e", "d">>,
               <<"f", "a", "i", "l", "u", "r", "e">>,
               <<"t", "i", "m", "e", "o", "u", "t">>}

\* dict.get(key, default)
field_or(item, key, default) == IF key \in DOMAIN item THEN item[key] ELSE default

\* rca_engine.py lines 354-362
_is_error_result(result) ==
    LET raw   == Lower(field_or(result, "_raw", << >>))
        level == Lower(field_or(result, "level", field_or(result, "log_level", << >>)))
    IN  \/ level \in ErrorLevels
        \/ \E w \in ErrorWords : StrIn(w, raw)

\* The first service, in catalog order, that lists the index; else the index.
_index_to_service(cat, index) ==
    LET owners == {k \in 1..Len(cat) :
                      \E j \in 1..Len(get_splunk_indexes(cat, cat[k].id)) :
                          Lower(get_splunk_indexes(cat, cat[k].id)[j]) = Lower(index)}
    IN  IF owners = {} THEN index ELSE cat[MinOf(owners)].id

_extract_service(cat, item) == _index_to_service(cat, item.index)

finding_patterns(cat, findings) ==
    LET keep == SelectSeq(findings, LAMBDA f : f.significance \in {"high", "medium"})
    IN  [k \in 1..Len(keep) |->
            [type |-> keep[k].field, value |-> keep[k].pattern, count |-> keep[k].count,
             significance |-> keep[k].significance,
             service |-> _extract_service(cat, keep[k]), timestamp |-> 0,
             error_category |-> _categorize_error(keep[k].pattern)]]

result_patterns(results) ==
    LET keep == SelectSeq(results, _is_error_result)
    IN  [k \in 1..Len(keep) |->
            [type |-> "error_log", value |-> keep[k]._raw, count |-> 1,
             significance |-> "high", service |-> keep[k].index,
             timestamp |-> keep[k]._time,
             error_category |-> _categorize_error(keep[k]._raw)]]

RECURSIVE _extract_error_patterns(_, _)
_extract_error_patterns(cat, steps) ==
    IF steps = << >> THEN << >>
    ELSE finding_patterns(cat, Head(steps).findings)
            \o result_patterns(Head(steps).results)
            \o _extract_error_patterns(cat, Tail(steps))

\* The positions of a list of keys in ascending order of key, equal keys
\* in their original order.
RECURSIVE ascending_order(_)
ascending_order(keys) ==
    IF keys = << >> THEN << >>
    ELSE LET n    == Len(keys)
             init == ascending_order(SubSeq(keys, 1, n - 1))
             at   == Cardinality({j \in 1..Len(init) : keys[init[j]] <= keys[n]})
         IN  SubSeq(init, 1, at) \o <<n>> \o SubSeq(init, at + 1, Len(init))

\* The same in descending order of key.
RECURSIVE descending_order(_)
descending_order(keys) ==
    IF keys = << >> THEN << >>
    ELSE LET n    == Len(keys)
             init == descending_order(SubSeq(keys, 1, n - 1))
             at   == Cardinality({j \in 1..Len(init) : keys[init[j]] >= keys[n]})
         IN  SubSeq(init, 1, at) \o <<n>> \o SubSeq(init, at + 1, Len(init))

\* list.sort(key=...): stable, ascending.
sort_ascending(s, Key(_)) ==
    LET order == ascending_order([k \in 1..Len(s) |-> Key(s[k])])
    IN  [k \in 1..Len(s) |-> s[order[k]]]

\* list.sort(key=..., reverse=True): stable, descending.
sort_descending(s, Key(_)) ==
    LET order == descending_order([k \in 1..Len(s) |-> Key(s[k])])
    IN  [k \in 1..Len(s) |-> s[order[k]]]

_build_event_timeline(cat, steps) ==
    LET results == Flatten([k \in 1..Len(steps) |-> steps[k].results])
        keep    == SelectSeq(results, LAMBDA r : r._time # 0 /\ _is_error_result(r))
        events  == [k \in 1..Len(keep) |->
                       [timestamp |-> keep[k]._time,
                        service |-> _extract_service(cat, keep[k])]]
    IN  sort_ascending(events, LAMBDA e : e.timestamp)

\* Links to the downstream services whose errors came earlier.
cascade_links_to_earlier(cat, timeline, service) ==
    LET errors == SelectSeq(timeline, LAMBDA e : e.service = service)
        first_error == errors[1]
        downstream_deps == get_downstream_dependencies(cat, service)
        earlier == SelectSeq(downstream_deps,
                             LAMBDA dep_service :
                                 \E k \in 1..Len(timeline) :
                                     /\ timeline[k].service = dep_service
                                     /\ timeline[k].timestamp < first_error.timestamp)
    IN  [k \in 1..Len(earlier) |-> [from |-> service, to |-> earlier[k]]]

\* The links one service adds to the cascade chain.
cascade_links(cat, timeline, service) ==
    LET errors == SelectSeq(timeline, LAMBDA e : e.service = service)
        first_error == errors[1]
        downstream_deps == get_downstream_dependencies(cat, service)
        later == SelectSeq(downstream_deps,
                           LAMBDA dep_service :
                               \E k \in 1..Len(timeline) :
                                   /\ timeline[k].service = dep_service
                                   /\ timeline[k].timestamp > first_error.timestamp)
    IN  [k \in 1..Len(later) |-> [from |-> service, to |-> later[k]]]

\* origin_service is an Optional: << >> is None.
_analyze_cascade_patterns(cat, timeline) ==
    LET services == Dedupe([k \in 1..Len(timeline) |-> timeline[k].service])
        links    == [k \in 1..Len(services) |-> cascade_links(cat, timeline, services[k])]
        origins  == {k \in 1..Len(services) : links[k] # << >>}
    IN  [detected |-> origins # {},
         chain |-> Flatten(links),
         origin_service |-> IF origins = {} THEN << >> ELSE <<services[MaxOf(origins)]>>]

\* intent is an Optional: << >> is None.
_is_upstream_service(cat, service, intent) ==
    /\ intent # << >>
    /\ service # << >>
    /\ \E k \in 1..Len(intent[1].entities) :
          \E dep \in Range(get_upstream_dependencies(cat, intent[1].entities[k])) :
              dep.service = service

_find_error_origin(cat, timeline, intent) ==
    IF timeline = << >>
    THEN [found |-> FALSE, service |-> << >>, timestamp |-> 0, confidence |-> 0]
    ELSE [found |-> TRUE, service |-> timeline[1].service,
          timestamp |-> timeline[1].timestamp,
          confidence |-> IF _is_upstream_service(cat, timeline[1].service, intent)
                         THEN 85 ELSE 70]

services_with_errors(error_patterns) ==
    {error_patterns[k].service : k \in 1..Len(error_patterns)} \ {<< >>}

\* The upstream failures one service adds.
upstream_failures_of(cat, with_errors, service) ==
    LET upstream == SelectSeq(get_upstream_dependencies(cat, service),
                              LAMBDA dep : dep.service \in with_errors)
    IN  [k \in 1..Len(upstream) |->
            [service |-> upstream[k].service, affected |-> service,
             failure_modes |-> upstream[k].failure_modes]]

\* The services with errors that have an upstream failure to report.
reporting_services(cat, error_patterns) ==
    {service \in services_with_errors(error_patterns) :
        upstream_failures_of(cat, services_with_errors(error_patterns), service) # << >>}

\* `order` is the order in which the iteration of the set
\* services_with_errors meets the services that report an upstream
\* failure; the other services add nothing to upstream_failures, wherever
\* the iteration meets them.
_analyze_dependency_chain(cat, error_patterns, order) ==
    LET with_errors == services_with_errors(error_patterns)
    IN  [upstream_failures |->
             Flatten([k \in 1..Len(order) |->
                         upstream_failures_of(cat, with_errors, order[k])])]

\* The orders in which a set can be iterated.
Orders(S) ==
    {s \in [1..Cardinality(S) -> S] : \A a, b \in 1..Cardinality(S) : a # b => s[a] # s[b]}

RootCause(service, confidence, type) ==
    [service |-> service, confidence |-> confidence, type |-> type]

\* The summed count of the patterns 1..k that have the key.
RECURSIVE pattern_count(_, _, _)
pattern_count(error_patterns, key, k) ==
    IF k = 0 THEN 0
    ELSE pattern_count(error_patterns, key, k - 1)
         + (IF <<error_patterns[k].service, error_patterns[k].error_category>> = key
            THEN error_patterns[k].count ELSE 0)

\* pattern_counts, in insertion order of its keys.
pattern_counts(error_patterns) ==
    LET keys == Dedupe([k \in 1..Len(error_patterns) |->
                           <<error_patterns[k].service, error_patterns[k].error_category>>])
    IN  [j \in 1..Len(keys) |->
            [service |-> keys[j][1], category |-> keys[j][2],
             count |-> pattern_count(error_patterns, keys[j], Len(error_patterns))]]

TopPatterns == 3

frequent_errors(error_patterns) ==
    LET sorted_patterns == sort_descending(pattern_counts(error_patterns),
                                           LAMBDA info : info.count)
        top == SubSeq(sorted_patterns, 1,
                      IF Len(sorted_patterns) < TopPatterns
                      THEN Len(sorted_patterns) ELSE TopPatterns)
        keep == SelectSeq(top, LAMBDA info : info.count > 0)
    IN  [k \in 1..Len(keep) |->
            RootCause(keep[k].service,
                      IF 50 + keep[k].count * 5 < 80 THEN 50 + keep[k].count * 5 ELSE 80,
                      "frequent_error")]

\* root_causes with the frequent errors put first.
candidate_causes_frequent_first(error_patterns, cascade_analysis, origin_analysis, dependency_analysis) ==
    frequent_errors(error_patterns)
    \o (IF origin_analysis.found /\ ~cascade_analysis.detected
        THEN <<RootCause(origin_analysis.service, origin_analysis.confidence,
                         "earliest_error")>>
        ELSE << >>)
    \o [k \in 1..Len(dependency_analysis.upstream_failures) |->
           RootCause(dependency_analysis.upstream_failures[k].service, 85,
                     "upstream_failure")]
    \o (IF cascade_analysis.detected /\ cascade_analysis.origin_service # << >>
        /\ cascade_analysis.origin_service[1] # << >>
     THEN <<RootCause(cascade_analysis.origin_service[1], 90, "cascade_origin")>>
     ELSE << >>)

\* root_causes before it is sorted.
candidate_causes(error_patterns, cascade_analysis, origin_analysis, dependency_analysis) ==
    (IF cascade_analysis.detected /\ cascade_analysis.origin_service # << >>
        /\ cascade_analysis.origin_service[1] # << >>
     THEN <<RootCause(cascade_analysis.origin_service[1], 90, "cascade_origin")>>
     ELSE << >>)
    \o [k \in 1..Len(dependency_analysis.upstream_failures) |->
           RootCause(dependency_analysis.upstream_failures[k].service, 85,
                     "upstream_failure")]
    \o (IF origin_analysis.found /\ ~cascade_analysis.detected
        THEN <<RootCause(origin_analysis.service, origin_analysis.confidence,
                         "earliest_error")>>
        ELSE << >>)
    \o frequent_errors(error_patterns)

\* A list that keeps every cause, whatever its service.
unique_causes_keeping_all(root_causes) == root_causes

\* A list that keeps the last cause of each service.
RECURSIVE unique_causes_keeping_last(_)
unique_causes_keeping_last(root_causes) ==
    IF root_causes = << >> THEN << >>
    ELSE LET rest == unique_causes_keeping_last(Tail(root_causes))
         IN  IF \E k \in 1..Len(rest) : rest[k].service = Head(root_causes).service
             THEN rest ELSE <<Head(root_causes)>> \o rest

\* unique_causes: the first cause of each service.
RECURSIVE unique_causes(_)
unique_causes(root_causes) ==
    IF root_causes = << >> THEN << >>
    ELSE LET init == unique_causes(SubSeq(root_causes, 1, Len(root_causes) - 1))
             x    == root_causes[Len(root_causes)]
         IN  IF \E k \in 1..Len(init) : init[k].service = x.service
             THEN init ELSE Append(init, x)

MaxRootCauses == 5

truncate(causes) ==
    SubSeq(causes, 1, IF Len(causes) < MaxRootCauses THEN Len(causes) ELSE MaxRootCauses)

_rank_root_causes(error_patterns, cascade_analysis, origin_analysis, dependency_analysis) ==
    truncate(unique_causes(
        sort_descending(candidate_causes(error_patterns, cascade_analysis,
                                         origin_analysis, dependency_analysis),
                        LAMBDA cause : cause.confidence)))

(***************************************************************************)
(* ConfidenceScorer (evidence/confidence.py).  The scores of one call are  *)
(* held as whole numbers of 1/unit, where unit is 1000 times the number of *)
(* evidence items times the number of root causes (an empty list counting  *)
(* as one): every factor score of the call is a whole number of them.  A   *)
(* relevance, a confidence and a similarity are held in hundredths.        *)
(***************************************************************************)
\* WEIGHTS, in hundredths.
WEIGHTS ==
    [evidence_quality |-> 25, evidence_quantity |-> 15, pattern_consistency |-> 20,
     service_correlation |-> 15, temporal_correlation |-> 10, historical_match |-> 15]

\* CONFIDENCE_LEVELS sorted by threshold, descending; thresholds in hundredths.
CONFIDENCE_LEVELS ==
    << <<"very_high", 85>>, <<"high", 70>>, <<"medium", 50>>, <<"low", 30>>,
       <<"very_low", 0>> >>

RECURSIVE SumOf(_)
SumOf(s) == IF s = << >> THEN 0 ELSE Head(s) + SumOf(Tail(s))

Size(s) == IF s = << >> THEN 1 ELSE Len(s)

Unit(evidence, root_causes) == 1000 * Size(evidence) * Size(root_causes)

\* A score given in hundredths.
Hundredths(h, unit) == h * (unit \div 100)

\* e.get("relevance_score", default): the score is an Optional.
relevance_or(e, default) ==
    IF e.relevance_score = << >> THEN default ELSE e.relevance_score[1]

_assess_evidence_quality(evidence, unit) ==
    IF evidence = << >> THEN 0
    ELSE LET total_relevance ==
                 SumOf([k \in 1..Len(evidence) |-> relevance_or(evidence[k], 50)])
             high_quality_count ==
                 Cardinality({k \in 1..Len(evidence) : relevance_or(evidence[k], 0) >= 70})
         IN  (6 * total_relevance + 400 * high_quality_count)
                * (unit \div (1000 * Len(evidence)))

_assess_evidence_quantity(evidence, unit) ==
    LET count == Len(evidence)
    IN  IF count = 0 THEN 0
        ELSE IF count <= 2 THEN Hundredths(30, unit)
        ELSE IF count <= 5 THEN Hundredths(60, unit)
        ELSE IF count <= 10 THEN Hundredths(85, unit)
        ELSE Hundredths(100, unit)

_assess_pattern_consistency(evidence, investigation_steps, unit) ==
    IF evidence = << >> \/ investigation_steps = << >> THEN 0
    ELSE LET with_service == SelectSeq(evidence, LAMBDA e : e.service # << >>)
             services == [k \in 1..Len(with_service) |-> with_service[k].service]
             dominant == MaxOf({Cardinality({k \in 1..Len(services) : services[k] = svc})
                                : svc \in Range(services)})
             score == IF 10 * dominant >= 6 * Len(services) THEN 90
                      ELSE IF 10 * dominant >= 4 * Len(services) THEN 60
                      ELSE 30
             steps_with_findings ==
                 Cardinality({k \in 1..Len(investigation_steps) :
                                 investigation_steps[k].findings # << >>})
         IN  IF services = << >> THEN Hundredths(30, unit)
             ELSE IF steps_with_findings >= 2
                  THEN Hundredths(IF score + 10 < 100 THEN score + 10 ELSE 100, unit)
                  ELSE Hundredths(score, unit)

_assess_service_correlation(evidence, root_causes, unit) ==
    IF root_causes = << >> THEN Hundredths(50, unit)
    ELSE IF \E k \in 1..Len(root_causes) : root_causes[k].type = "cascade_origin"
         THEN Hundredths(95, unit)
    ELSE IF \E k \in 1..Len(root_causes) : root_causes[k].type = "upstream_failure"
         THEN Hundredths(85, unit)
    ELSE 8 * SumOf([k \in 1..Len(root_causes) |-> root_causes[k].confidence])
            * (unit \div (1000 * Len(root_causes)))

\* correlations is an Optional: << >> is None or an empty dict.
_assess_temporal_correlation(correlations, unit) ==
    IF correlations = << >> THEN Hundredths(50, unit)
    ELSE LET tx_correlations == correlations[1].transaction_correlations
             multi_service_txs ==
                 Cardinality({k \in 1..Len(tx_correlations) :
                                 Cardinality(Range(tx_correlations[k])) > 1})
             score == 50 + (IF multi_service_txs > 0 THEN 30 ELSE 0)
                         + (IF correlations[1].temporal_correlations # << >>
                            THEN 20 ELSE 0)
         IN  Hundredths(IF score < 100 THEN score ELSE 100, unit)

_assess_historical_match(correlations, unit) ==
    IF correlations = << >> \/ correlations[1].historical_matches = << >>
    THEN Hundredths(50, unit)
    ELSE LET historical_matches == correlations[1].historical_matches
             best == MinOf({k \in 1..Len(historical_matches) :
                               \A j \in 1..Len(historical_matches) :
                                   historical_matches[j].similarity
                                      <= historical_matches[k].similarity})
             similarity == historical_matches[best].similarity
             resolution == historical_matches[best].historical_resolution
             score == IF similarity >= 80 THEN 95
                      ELSE IF similarity >= 60 THEN 75
                      ELSE IF similarity >= 40 THEN 55
                      ELSE 40
         IN  IF resolution /\ similarity >= 60
             THEN Hundredths(IF score + 5 < 100 THEN score + 5 ELSE 100, unit)
             ELSE Hundredths(score, unit)

\* sum(f["weighted_score"] ...), in 1/(100 * unit).
weighted_sum(factors) ==
      WEIGHTS.evidence_quality * factors.evidence_quality
    + WEIGHTS.evidence_quantity * factors.evidence_quantity
    + WEIGHTS.pattern_consistency * factors.pattern_consistency
    + WEIGHTS.service_correlation * factors.service_correlation
    + WEIGHTS.temporal_correlation * factors.temporal_correlation
    + WEIGHTS.historical_match * factors.historical_match

\* A sum that is not clamped.
clamp_none(total, unit) == total

\* min(max(final_score, 0.0), 1.0)
clamp(total, unit) ==
    IF total < 0 THEN 0 ELSE IF total > 100 * unit THEN 100 * unit ELSE total

\* Whether round(x, 2) sits on a tie, whose direction the floating-point
\* value of x decides.
rounding_tie(total, unit) == 2 * (total % unit) = unit

\* round(x, 2), in hundredths; `up` is the direction taken on a tie.
round2(total, unit, up) ==
    LET low == total \div unit
        rest == total % unit
    IN  IF 2 * rest > unit \/ (2 * rest = unit /\ up) THEN low + 1 ELSE low

_get_confidence_level(score) ==
    LET hits == {k \in 1..Len(CONFIDENCE_LEVELS) : score >= CONFIDENCE_LEVELS[k][2]}
    IN  IF hits = {} THEN "very_low" ELSE CONFIDENCE_LEVELS[MinOf(hits)][1]

(***************************************************************************)
(* InvestigationOrchestrator (orchestrator/orchestrator.py).               *)
(***************************************************************************)
VARIABLES
    catalog,             \* ServiceCatalog.services
    pc,                  \* where investigate is
    intent,              \* the extracted intent
    matched_services,    \* the catalog entries of the intent's services
    historical_context,  \* the incidents the memory returned
    hypotheses,          \* the hypotheses, by priority
    idx,                 \* the primary loop's index, from 1
    spl_query,           \* the query generated for the step in hand
    investigation_steps, \* the steps recorded so far
    services_to_check,   \* upstream services not yet visited
    upstream_service,    \* the upstream service in hand
    additional_steps,    \* the steps of the upstream phase
    step_number,         \* the upstream phase's next step number
    result,              \* what investigate returned
    raised,              \* the call whose exception left investigate
    calls,               \* every collaborator call and phase, in order
    rca,                 \* one call of RCAEngine.identify_root_causes
    conf,                \* one call of ConfidenceScorer.calculate_confidence
    chain,               \* one call of ServiceCatalog.get_dependency_chain
    pat,                 \* one call of ResultAnalyzer._extract_patterns
    cor,                 \* one call of each correlation of PatternCorrelation
    gateway              \* the requests in hand at the gateway and their objects

vars == << catalog, pc, intent, matched_services, historical_context, hypotheses,
           idx, spl_query, investigation_steps, services_to_check, upstream_service,
           additional_steps, step_number, result, raised, calls, rca, conf,
           chain, pat, cor, gateway >>

NoIntent == Intent(<< >>, << >>, << >>, << >>)
NoResult == [requires_user_input |-> FALSE, available_services |-> << >>,
             investigation_steps |-> << >>, answer |-> "none"]

Call(op, phase, subject, failed) ==
    [op |-> op, phase |-> phase, subject |-> subject, failed |-> failed]

\* for idx in indexes: owner = find_service_by_index(idx); append if new.
RECURSIVE infer_services(_, _, _)
infer_services(cat, indexes, services) ==
    IF indexes = << >> THEN services
    ELSE LET owner == find_service_by_index(cat, Head(indexes))
         IN  infer_services(cat, Tail(indexes),
                            IF owner # << >> /\ ~InList(owner[1], services)
                            THEN Append(services, owner[1]) ELSE services)

resolved_services(cat, it) ==
    IF it.indexes # << >> /\ it.services = << >>
    THEN infer_services(cat, it.indexes, it.services)
    ELSE it.services

\* The early-exit test without its entity clause.
requires_user_input_ignoring_entities(matched, indexes, entities) ==
    matched = << >> /\ indexes = << >>

\* The test of the early exit.
requires_user_input(matched, indexes, entities) ==
    matched = << >> /\ indexes = << >> /\ entities = << >>

\* A primary loop that never breaks.
stops_loop_never(analysis) == FALSE

\* Whether the primary loop stops after a step.
stops_loop(analysis) == analysis.sufficient_evidence

\* An upstream trigger that fires on any finding.
has_errors_any_finding(steps) ==
    \E k \in 1..Len(steps) : steps[k].findings # << >>

\* has_errors
has_errors(steps) ==
    \E k \in 1..Len(steps) :
        \E j \in 1..Len(steps[k].findings) : steps[k].findings[j].significance = "high"

\* investigated_services
investigated_services(matched) == {matched[k].service_id : k \in 1..Len(matched)}

\* The upstream dependencies of the matched services, as <<service, modes>>.
upstream_deps(cat, matched) ==
    UNION { Range(get_upstream_dependencies(cat, matched[k].service_id))
            : k \in 1..Len(matched) }

\* A selection that keeps the services already investigated.
to_check_with_investigated(cat, matched) ==
    { dep.service : dep \in { d \in upstream_deps(cat, matched) : d.service # << >> } }

\* services_to_check
to_check(cat, matched) ==
    { dep.service : dep \in { d \in upstream_deps(cat, matched) :
                                 /\ d.service # << >>
                                 /\ d.service \notin investigated_services(matched) } }

\* The services of intent["upstream_failure_modes"].
with_failure_modes(cat, matched) ==
    { dep.service : dep \in { d \in upstream_deps(cat, matched) :
                                 /\ d.service # << >>
                                 /\ d.service \notin investigated_services(matched)
                                 /\ d.failure_modes # << >> } }

\* Upstream numbering restarted at one.
first_upstream_number_restart(steps) == 1

\* The first step number of the upstream phase.
first_upstream_number(steps) == Len(steps) + 1

\* Ranking ahead of correlation.
phase_after_rank_first(phase) ==
    CASE phase = "upstream"  -> "rank"
      [] phase = "rank"      -> "correlate"
      [] phase = "correlate" -> "score"
      [] phase = "score"     -> "answer"
      [] phase = "answer"    -> "store"
      [] OTHER               -> "done"

\* The order of the phases after the primary loop.
phase_after(phase) ==
    CASE phase = "upstream"  -> "correlate"
      [] phase = "correlate" -> "rank"
      [] phase = "rank"      -> "score"
      [] phase = "score"     -> "answer"
      [] phase = "answer"    -> "store"
      [] OTHER               -> "done"

Step(number, hypothesis, target, query, findings) ==
    [step_number |-> number, hypothesis |-> hypothesis, target |-> target,
     spl_query |-> query, findings |-> findings]

\* step.get("results", {}).get("results", []) over the step dicts: the
\* records a step carries, none when the step has no such field.
all_events(steps) ==
    Flatten([k \in 1..Len(steps) |->
                IF "results" \in DOMAIN steps[k] THEN steps[k].results.results
                ELSE << >>])

\* No call of the engine or of the scorer is in hand.
RcaIdle  == [pc |-> "idle"]
ConfIdle == [pc |-> "idle"]

\* No call of the catalog's traversal, of the pattern extractor or of the
\* correlation engine is in hand.
ChainIdle == [pc |-> "idle"]
PatIdle   == [pc |-> "idle"]
CorIdle   == [pc |-> "idle"]

\* No request is in hand at the gateway.
GatewayIdle == [frames |-> << >>, orchestrators |-> << >>, lists |-> << >>]

\* The orchestrator at position p, before anything was done.
OrchestratorAt(p) ==
    /\ pc = p
    /\ intent = NoIntent
    /\ matched_services = << >>
    /\ historical_context = << >>
    /\ hypotheses = << >>
    /\ idx = 0
    /\ spl_query = "none"
    /\ investigation_steps = << >>
    /\ services_to_check = {}
    /\ upstream_service = << >>
    /\ additional_steps = << >>
    /\ step_number = 0
    /\ result = NoResult
    /\ raised = "none"
    /\ calls = << >>

Init ==
    /\ catalog \in Catalogs
    /\ gateway = GatewayIdle
    /\ OrchestratorAt("extract_intent")
    /\ rca = RcaIdle
    /\ conf = ConfIdle
    /\ chain = ChainIdle
    /\ pat = PatIdle
    /\ cor = CorIdle

\* line 45
ExtractIntent ==
    /\ pc = "extract_intent"
    /\ \E it \in Intents : intent' = it
    /\ pc' = "resolve"
    /\ calls' = Append(calls, Call("extract_intent", "plan", << >>, FALSE))
    /\ UNCHANGED << chain, pat, cor, rca, conf, gateway, catalog, matched_services, historical_context, hypotheses, idx,
                    spl_query, investigation_steps, services_to_check, upstream_service,
                    additional_steps, step_number, result, raised >>

\* The question is answered with the request for a service only after the
\* history was read.
after_resolution_reading_history(early_exit) == "retrieve"

\* lines 77-113: the return of the early exit comes before line 116.
after_resolution(early_exit) == IF early_exit THEN "done" ELSE "retrieve"

\* lines 58-113
ResolveServices ==
    /\ pc = "resolve"
    /\ LET services == resolved_services(catalog, intent)
           matched  == find_services_by_entities(catalog, services)
           early_exit == requires_user_input(matched, intent.indexes, intent.entities)
       IN  /\ intent' = [intent EXCEPT !.services = services]
           /\ matched_services' = matched
           /\ result' = IF early_exit
                        THEN [requires_user_input |-> TRUE,
                              available_services |-> service_keys(catalog),
                              investigation_steps |-> << >>,
                              answer |-> "which service?"]
                        ELSE result
           /\ pc' = after_resolution(early_exit)
    /\ UNCHANGED << chain, pat, cor, rca, conf, gateway, catalog, historical_context, hypotheses, idx, spl_query,
                    investigation_steps, services_to_check, upstream_service,
                    additional_steps, step_number, raised, calls >>

\* lines 115-120
RetrieveHistory ==
    /\ pc = "retrieve"
    /\ \E outcome \in MemoryOutcomes :
         LET r == retrieve_relevant_incidents(outcome)
         IN  /\ calls' = Append(calls, Call("retrieve_relevant_incidents", "history",
                                            << >>, r[1] = "raise"))
             /\ IF r[1] = "ok"
                THEN /\ historical_context' = r[2]
                     /\ pc' = "hypotheses"
                     /\ raised' = raised
                ELSE /\ historical_context' = historical_context
                     /\ pc' = "raised"
                     /\ raised' = "retrieve_relevant_incidents"
    /\ UNCHANGED << chain, pat, cor, rca, conf, gateway, catalog, intent, matched_services, hypotheses, idx, spl_query,
                    investigation_steps, services_to_check, upstream_service,
                    additional_steps, step_number, result >>

\* lines 122-132
GenerateHypotheses ==
    /\ pc = "hypotheses"
    /\ \E response \in HypResponses :
         /\ hypotheses' = generate_hypotheses(response)
         /\ calls' = Append(calls, Call("generate_hypotheses", "hypotheses", << >>,
                                        response[1] # "ok"))
    /\ idx' = 1
    /\ pc' = IF hypotheses' = << >> THEN "upstream" ELSE "primary_generate"
    /\ UNCHANGED << chain, pat, cor, rca, conf, gateway, catalog, intent, matched_services, historical_context, spl_query,
                    investigation_steps, services_to_check, upstream_service,
                    additional_steps, step_number, result, raised >>

\* lines 132-144
PrimaryGenerateQuery ==
    /\ pc = "primary_generate"
    /\ \E query \in LLMQueries :
         LET g == generate_query(query)
         IN  /\ calls' = Append(calls, Call("generate_query", "primary",
                                            <<hypotheses[idx].hypothesis>>, g[1] = "raise"))
             /\ IF g[1] = "ok"
                THEN /\ spl_query' = g[2]
                     /\ pc' = "primary_execute"
                     /\ raised' = raised
                ELSE /\ spl_query' = spl_query
                     /\ pc' = "raised"
                     /\ raised' = "generate_query"
    /\ UNCHANGED << chain, pat, cor, rca, conf, gateway, catalog, intent, matched_services, historical_context, hypotheses,
                    idx, investigation_steps, services_to_check, upstream_service,
                    additional_steps, step_number, result >>

\* The loop taking the same hypothesis again.
next_index_same(i) == i

\* line 132: enumerate goes on to the next hypothesis.
next_index(i) == i + 1

\* lines 145-181
PrimaryExecuteQuery ==
    /\ pc = "primary_execute"
    /\ \E outcome \in SplunkOutcomes, records \in ResultSets :
         LET e == execute_query(outcome, records)
             query_results == IF e[1] = "ok" THEN e[2] ELSE EmptyResults
             analysis == analyze(query_results, intent)
         IN  /\ calls' = Append(calls, Call("execute_query", "primary",
                                            <<hypotheses[idx].hypothesis>>,
                                            outcome # "ok"))
             /\ investigation_steps' =
                    Append(investigation_steps,
                           Step(idx, hypotheses[idx].hypothesis, << >>, spl_query,
                                analysis.findings))
             /\ IF stops_loop(analysis) \/ idx = Len(hypotheses)
                THEN pc' = "upstream" /\ idx' = idx
                ELSE pc' = "primary_generate" /\ idx' = next_index(idx)
    /\ spl_query' = "none"
    /\ UNCHANGED << chain, pat, cor, rca, conf, gateway, catalog, intent, matched_services, historical_context, hypotheses,
                    services_to_check, upstream_service, additional_steps, step_number,
                    result, raised >>

\* lines 186-307
UpstreamStart ==
    /\ pc = "upstream"
    /\ calls' = Append(calls, Call("_investigate_upstream_dependencies", "upstream",
                                   << >>, FALSE))
    /\ additional_steps' = << >>
    /\ IF has_errors(investigation_steps) /\ to_check(catalog, matched_services) # {}
       THEN /\ services_to_check' = to_check(catalog, matched_services)
            /\ step_number' = first_upstream_number(investigation_steps)
            /\ pc' = "upstream_next"
       ELSE /\ services_to_check' = {}
            /\ step_number' = step_number
            /\ pc' = phase_after("upstream")
    /\ UNCHANGED << chain, pat, cor, rca, conf, gateway, catalog, intent, matched_services, historical_context, hypotheses,
                    idx, spl_query, investigation_steps, upstream_service, result,
                    raised >>

\* lines 309-313: a service without an index is passed over.
UpstreamSkip ==
    /\ pc = "upstream_next"
    /\ \E s \in services_to_check :
         /\ get_splunk_indexes(catalog, s) = << >>
         /\ services_to_check' = services_to_check \ {s}
    /\ UNCHANGED << chain, pat, cor, rca, conf, gateway, catalog, pc, intent, matched_services, historical_context,
                    hypotheses, idx, spl_query, investigation_steps, upstream_service,
                    additional_steps, step_number, result, raised, calls >>

\* lines 309-335 and 366-371
UpstreamGenerateQuery ==
    /\ pc = "upstream_next"
    /\ \E s \in services_to_check, query \in LLMQueries :
         LET g == generate_query(query)
         IN  /\ get_splunk_indexes(catalog, s) # << >>
             /\ services_to_check' = services_to_check \ {s}
             /\ calls' = Append(calls, Call("generate_query", "upstream", s,
                                            g[1] = "raise"))
             /\ IF g[1] = "ok"
                THEN /\ spl_query' = g[2]
                     /\ upstream_service' = s
                     /\ pc' = "upstream_execute"
                ELSE /\ spl_query' = spl_query
                     /\ upstream_service' = upstream_service
                     /\ pc' = "upstream_next"
    /\ UNCHANGED << chain, pat, cor, rca, conf, gateway, catalog, intent, matched_services, historical_context, hypotheses,
                    idx, investigation_steps, additional_steps, step_number, result,
                    raised >>

\* lines 337-371
UpstreamExecuteQuery ==
    /\ pc = "upstream_execute"
    /\ \E outcome \in SplunkOutcomes, records \in UpstreamResultSets :
         LET e == execute_query(outcome, records)
             analysis == analyze(e[2], intent)
             hypothesis ==
                 IF upstream_service \in with_failure_modes(catalog, matched_services)
                 THEN "Check upstream service for its failure modes"
                 ELSE "Check upstream service for errors that may have cascaded downstream"
         IN  /\ calls' = Append(calls, Call("execute_query", "upstream",
                                            upstream_service, outcome # "ok"))
             /\ IF e[1] = "ok"
                THEN /\ additional_steps' =
                            Append(additional_steps,
                                   Step(step_number, hypothesis, upstream_service,
                                        spl_query, analysis.findings))
                     /\ step_number' = step_number + 1
                ELSE /\ additional_steps' = additional_steps
                     /\ step_number' = step_number
    /\ pc' = "upstream_next"
    /\ spl_query' = "none"
    /\ upstream_service' = << >>
    /\ UNCHANGED << chain, pat, cor, rca, conf, gateway, catalog, intent, matched_services, historical_context, hypotheses,
                    idx, investigation_steps, services_to_check, result, raised >>

\* lines 373 and 201
UpstreamReturn ==
    /\ pc = "upstream_next"
    /\ services_to_check = {}
    /\ investigation_steps' = investigation_steps \o additional_steps
    /\ additional_steps' = << >>
    /\ pc' = phase_after("upstream")
    /\ UNCHANGED << chain, pat, cor, rca, conf, gateway, catalog, intent, matched_services, historical_context, hypotheses,
                    idx, spl_query, services_to_check, upstream_service,
                    step_number, result, raised, calls >>

\* lines 203-226: correlation, root-cause ranking, evidence and confidence.
\* The call of the correlation and of the ranking is logged with the events
\* it collects from the step dicts (lines 387-395, rca_engine.py 95-97).
LocalPhase ==
    /\ pc \in {"correlate", "rank", "score"}
    /\ calls' = Append(calls, Call(pc, pc,
                                   IF pc \in {"correlate", "rank"}
                                   THEN all_events(investigation_steps) ELSE << >>,
                                   FALSE))
    /\ pc' = phase_after(pc)
    /\ UNCHANGED << chain, pat, cor, rca, conf, gateway, catalog, intent, matched_services, historical_context, hypotheses,
                    idx, spl_query, investigation_steps, services_to_check,
                    upstream_service, additional_steps, step_number, result, raised >>

\* lines 228-236: the answer generator falls back to its template when the
\* language model fails.
GenerateAnswer ==
    /\ pc = "answer"
    /\ \E failed \in BOOLEAN :
         /\ calls' = Append(calls, Call("generate_answer", "answer", << >>, failed))
         /\ result' = [result EXCEPT !.answer = IF failed THEN "fallback" ELSE "llm"]
    /\ pc' = phase_after(pc)
    /\ UNCHANGED << chain, pat, cor, rca, conf, gateway, catalog, intent, matched_services, historical_context, hypotheses,
                    idx, spl_query, investigation_steps, services_to_check,
                    upstream_service, additional_steps, step_number, raised >>

\* lines 238-256
StoreAndReturn ==
    /\ pc = "store"
    /\ \E outcome \in MemoryOutcomes \ {"ok_incidents"} :
         LET r == store_investigation(outcome)
         IN  /\ calls' = Append(calls, Call("store_investigation", "store", << >>,
                                            r[1] = "raise"))
             /\ IF r[1] = "ok"
                THEN /\ result' = [result EXCEPT
                                      !.investigation_steps = investigation_steps]
                     /\ pc' = phase_after(pc)
                     /\ raised' = raised
                ELSE /\ result' = result
                     /\ pc' = "raised"
                     /\ raised' = "store_investigation"
    /\ UNCHANGED << chain, pat, cor, rca, conf, gateway, catalog, intent, matched_services, historical_context, hypotheses,
                    idx, spl_query, investigation_steps, services_to_check,
                    upstream_service, additional_steps, step_number >>

Next ==
    \/ ExtractIntent
    \/ ResolveServices
    \/ RetrieveHistory
    \/ GenerateHypotheses
    \/ PrimaryGenerateQuery
    \/ PrimaryExecuteQuery
    \/ UpstreamStart
    \/ UpstreamSkip
    \/ UpstreamGenerateQuery
    \/ UpstreamExecuteQuery
    \/ UpstreamReturn
    \/ LocalPhase
    \/ GenerateAnswer
    \/ StoreAndReturn

Spec == Init /\ [][Next]_vars


(***************************************************************************)
(* Properties of the orchestrator.                                         *)
(***************************************************************************)
\* Every step recorded so far, in the order of the final list.
AllSteps == investigation_steps \o additional_steps

\* The steps of the primary loop and those of the upstream phase.
PrimarySteps  == SelectSeq(AllSteps, LAMBDA st : st.target = << >>)
UpstreamSteps == SelectSeq(AllSteps, LAMBDA st : st.target # << >>)

CallsOf(op, phase) == SelectSeq(calls, LAMBDA c : c.op = op /\ c.phase = phase)

\* investigate took the early exit.
EarlyExit == pc = "done" /\ result.requires_user_input

\* investigate returned a full result.
Completed == pc = "done" /\ ~result.requires_user_input

\* The primary loop has been left by its own control flow.
PrimaryLoopLeft ==
    \/ pc \in {"upstream", "upstream_next", "upstream_execute", "correlate", "rank",
               "score", "answer", "store"}
    \/ Completed
    \/ pc = "raised" /\ raised = "store_investigation"

\* The upstream phase has returned.
UpstreamReturned ==
    \/ pc \in {"correlate", "rank", "score", "answer", "store"}
    \/ Completed
    \/ pc = "raised" /\ raised = "store_investigation"

\* A step whose analysis reported sufficient evidence: records came back
\* and at least two findings were made of them.
SufficientStep(st) == Len(st.findings) >= 2

HasHighFinding(st) ==
    \E j \in 1..Len(st.findings) : st.findings[j].significance = "high"

C4_FailedQueryDegrades ==
    LET ex == SelectSeq(calls, LAMBDA c : c.op = "execute_query")
        last == calls[Len(calls)]
    IN  /\ Len(ex) = Len(AllSteps)
        /\ \A j \in 1..Len(ex) :
              /\ j <= Len(AllSteps)
              /\ ex[j].phase = "primary" => ex[j].subject = <<AllSteps[j].hypothesis>>
              /\ ex[j].phase = "upstream" => ex[j].subject = AllSteps[j].target
              /\ ex[j].failed => AllSteps[j].findings = << >>
        /\ (calls # << >> /\ last.op = "execute_query" /\ last.failed) =>
              \/ /\ last.phase = "primary"
                 /\ pc = "primary_generate"
                 /\ idx = Len(PrimarySteps) + 1
                 /\ idx <= Len(hypotheses)
              \/ /\ last.phase = "primary"
                 /\ pc = "upstream"
                 /\ Len(PrimarySteps) = Len(hypotheses)
              \/ /\ last.phase = "upstream"
                 /\ pc = "upstream_next"
              \/ /\ last.phase = "upstream"
                 /\ pc = phase_after("upstream")
                 /\ services_to_check = {}

\* C4 witness: an investigation completed although a primary and an
\* upstream execution failed.
C4_Witness ==
    /\ Completed
    /\ \E c \in Range(calls) : c.op = "execute_query" /\ c.phase = "primary" /\ c.failed
    /\ \E c \in Range(calls) : c.op = "execute_query" /\ c.phase = "upstream" /\ c.failed
    /\ \E st \in Range(UpstreamSteps) : st.findings = << >>

\* C5: the early exit is taken exactly when no service of the intent is in
\* the catalog and the intent has no index and no entity; it returns the
\* catalog's service ids and no step.
C5_EarlyExitIff ==
    LET unresolved ==
            /\ \A k \in 1..Len(intent.services) :
                  find_service(catalog, intent.services[k]) = << >>
            /\ intent.indexes = << >>
            /\ intent.entities = << >>
    IN  /\ pc \notin {"extract_intent", "resolve"} =>
              /\ result.requires_user_input <=> unresolved
              /\ unresolved => pc = "done"
              /\ ~unresolved /\ pc = "done" => Len(calls) > 1
        /\ result.requires_user_input =>
              /\ result.available_services = service_keys(catalog)
              /\ result.investigation_steps = << >>
              /\ AllSteps = << >>

\* C5 witness: the intent names a service the catalog does not hold.
C5_Witness ==
    /\ EarlyExit
    /\ intent.services # << >>
    /\ Len(result.available_services) >= 2

\* C6: the i-th step of the step list has number i.
C6_StepNumbersContiguous ==
    \A i \in 1..Len(AllSteps) : AllSteps[i].step_number = i

\* C6 witness: a completed investigation whose upstream phase recorded a
\* step after a rejected query generation.
C6_Witness ==
    /\ Completed
    /\ Len(PrimarySteps) >= 1
    /\ Len(UpstreamSteps) >= 1
    /\ \E a, b \in 1..Len(calls) :
          /\ a < b
          /\ calls[a].op = "generate_query" /\ calls[a].phase = "upstream"
          /\ calls[a].failed
          /\ calls[b].op = "execute_query" /\ calls[b].phase = "upstream"

PhaseOrder ==
    <<"plan", "history", "hypotheses", "primary", "upstream", "correlate", "rank",
      "score", "answer", "store">>

PhaseRank ==
    [ph \in Range(PhaseOrder) |-> CHOOSE k \in 1..Len(PhaseOrder) : PhaseOrder[k] = ph]

C8_UpstreamNeedsHighFinding ==
    (\/ UpstreamSteps # << >>
     \/ \E c \in Range(calls) :
           c.phase = "upstream" /\ c.op \in {"generate_query", "execute_query"})
       => \E st \in Range(PrimarySteps) : HasHighFinding(st)

\* C8 witness: an upstream step was recorded.
C8_Witness ==
    /\ Completed
    /\ UpstreamSteps # << >>
    /\ \E st \in Range(PrimarySteps) : ~HasHighFinding(st)

\* The ids of the matched services, and the services the catalog declares
\* upstream of one of them that are not matched themselves.
MatchedIds == {matched_services[k].id : k \in 1..Len(matched_services)}

DeclaredUpstream ==
    { dep.service : dep \in UNION { Range(matched_services[k].upstream)
                                    : k \in 1..Len(matched_services) } } \ MatchedIds

StepsFor(s) == Cardinality({k \in 1..Len(UpstreamSteps) : UpstreamSteps[k].target = s})

\* Upstream tracing ran: a primary step held a high finding.
TracingRan == UpstreamReturned /\ \E st \in Range(PrimarySteps) : HasHighFinding(st)

C10_MemoryFailureTolerated ==
    \A c \in Range(calls) :
       (c.op \in {"retrieve_relevant_incidents", "store_investigation"} /\ c.failed)
          => pc # "raised"

\* C11 as claimed: a primary query whose generation fails leaves a step
\* without findings for its hypothesis, and investigate does not raise.
C11_FailedSynthesisSubstituted ==
    \A c \in Range(calls) :
       (c.op = "generate_query" /\ c.phase = "primary" /\ c.failed)
          => /\ raised # "generate_query"
             /\ \E k \in 1..Len(PrimarySteps) :
                    /\ PrimarySteps[k].hypothesis = c.subject[1]
                    /\ PrimarySteps[k].findings = << >>

\* The call of generate_hypotheses that failed, if any.
HypothesesFailed ==
    \E c \in Range(calls) : c.op = "generate_hypotheses" /\ c.failed

\* C12: after a failed hypothesis generation the hypotheses are the two
\* fixed ones, priority 1 then 2, and the primary loop records at most two
\* steps, each for one of them, in their order.
C12_FallbackHypotheses ==
    HypothesesFailed =>
       /\ Len(hypotheses) = 2
       /\ hypotheses[1] = [hypothesis |-> "Check for error logs matching the symptom",
                           priority |-> 1]
       /\ hypotheses[2] = [hypothesis |-> "Check for service outages or degradation",
                           priority |-> 2]
       /\ Len(PrimarySteps) <= 2
       /\ \A k \in 1..Len(PrimarySteps) :
              PrimarySteps[k].hypothesis = hypotheses[k].hypothesis

\* C12 witness: a run completed on the fallback hypotheses with a step for
\* each of the two.
C12_Witness ==
    /\ Completed
    /\ HypothesesFailed
    /\ Len(PrimarySteps) = 2
    /\ PrimarySteps[2].hypothesis = "Check for service outages or degradation"

\* C13 as claimed: when a recorded step has findings, which are made only
\* of records its query returned, the events the correlation and the
\* ranking collect from the steps are not empty.
C13_StepsCarryResults ==
    \A c \in Range(calls) :
       (c.op \in {"correlate", "rank"}
          /\ \E k \in 1..Len(investigation_steps) : investigation_steps[k].findings # << >>)
          => c.subject # << >>


(***************************************************************************)
(* One call of RCAEngine.identify_root_causes, on steps that carry         *)
(* findings and result records.                                            *)
(***************************************************************************)
\* Longest step list handed to the engine.
MaxRcaSteps == 2

I4 == <<"i", "4">>

ErrorLevel == <<"E", "R", "R", "O", "R">>
InfoLevel  == <<"i", "n", "f", "o">>
TimeoutRaw == <<"r", "e", "a", "d", " ", "t", "i", "m", "e", "o", "u", "t">>
QuietRaw   == <<"o", "k">>

CatalogChain ==
    << Service(Api, <<I1>>, <<Dep(Db, <<"timeout">>), Dep(Mq, <<>>)>>),
       Service(Db, <<I2>>, <<Dep(Ex, <<>>)>>),
       Service(Mq, <<I3>>, <<>>),
       Service(Ex, <<I4>>, <<>>) >>

\* A catalog in which db lists itself among its upstream dependencies.
CatalogSelf ==
    << Service(Ex, <<I4>>, <<>>),
       Service(Db, <<I2>>, <<Dep(Ex, <<>>), Dep(Db, <<>>)>>) >>

RcaCatalogs == {CatalogA, CatalogChain, CatalogSelf}

Event(index, time, level, raw) ==
    [index |-> index, _time |-> time, level |-> level, _raw |-> raw]

Finding(field, pattern, count, significance, index) ==
    [field |-> field, pattern |-> pattern, count |-> count,
     significance |-> significance, index |-> index]

RcaStep(findings, results) == [findings |-> findings, results |-> results]

\* The steps a step list is made of.
StepQuiet == RcaStep(<< >>, <<Event(I1, 5, InfoLevel, QuietRaw)>>)

StepCascade ==
    RcaStep(<< >>, <<Event(I4, 1, ErrorLevel, << >>), Event(I2, 2, InfoLevel, TimeoutRaw)>>)

StepLate ==
    RcaStep(<< >>, <<Event(I1, 3, ErrorLevel, << >>), Event(I3, 0, ErrorLevel, << >>)>>)

StepRepeat == RcaStep(<< >>, <<Event(I2, 4, ErrorLevel, << >>)>>)

StepFindings ==
    RcaStep(<<Finding("level", TimeoutRaw, 9, "high", I1),
              Finding("host", H1, 1, "medium", I2),
              Finding("level", Err, 1, "high", I3),
              Finding("host", H2, 1, "high", I4)>>, << >>)

StepPlain ==
    RcaStep(<<Finding("level", Err, 3, "high", << >>),
              Finding("host", H1, 5, "low", I1)>>, << >>)

\* Four occurrences of a pattern in mq and one error record of api.
StepFour ==
    RcaStep(<<Finding("level", Err, 4, "high", I3)>>,
            <<Event(I1, 3, ErrorLevel, << >>)>>)

RcaStepKinds ==
    {StepQuiet, StepCascade, StepLate, StepRepeat, StepFindings, StepPlain, StepFour}

RcaStepLists == UNION {[1..n -> RcaStepKinds] : n \in 0..MaxRcaSteps}

\* The intent handed to the engine: None, or one that names a service.
RcaIntents == {<< >>, <<Intent(<< >>, << >>, <<Api>>, << >>)>>}

RcaStart(steps, it) ==
    [pc |-> "extract_error_patterns", steps |-> steps, intent |-> it,
     error_patterns |-> << >>, timeline |-> << >>,
     cascade_analysis |-> [detected |-> FALSE, chain |-> << >>, origin_service |-> << >>],
     origin_analysis |-> [found |-> FALSE, service |-> << >>, timestamp |-> 0,
                          confidence |-> 0],
     dependency_analysis |-> [upstream_failures |-> << >>],
     root_causes |-> << >>]

InitRCA ==
    /\ catalog \in RcaCatalogs
    /\ gateway = GatewayIdle
    /\ OrchestratorAt("idle")
    /\ \E steps \in RcaStepLists, it \in RcaIntents : rca = RcaStart(steps, it)
    /\ conf = ConfIdle
    /\ chain = ChainIdle
    /\ pat = PatIdle
    /\ cor = CorIdle

RcaUnchanged ==
    UNCHANGED << chain, pat, cor, conf, gateway, catalog, pc, intent, matched_services, historical_context,
                 hypotheses, idx, spl_query, investigation_steps, services_to_check,
                 upstream_service, additional_steps, step_number, result, raised, calls >>

\* line 25
RcaExtractErrorPatterns ==
    /\ rca.pc = "extract_error_patterns"
    /\ rca' = [rca EXCEPT !.error_patterns = _extract_error_patterns(catalog, rca.steps),
                          !.pc = "build_event_timeline"]
    /\ RcaUnchanged

\* line 28
RcaBuildEventTimeline ==
    /\ rca.pc = "build_event_timeline"
    /\ rca' = [rca EXCEPT !.timeline = _build_event_timeline(catalog, rca.steps),
                          !.pc = "analyze_cascade_patterns"]
    /\ RcaUnchanged

\* line 31
RcaAnalyzeCascadePatterns ==
    /\ rca.pc = "analyze_cascade_patterns"
    /\ rca' = [rca EXCEPT
                  !.cascade_analysis = _analyze_cascade_patterns(catalog, rca.timeline),
                  !.pc = "find_error_origin"]
    /\ RcaUnchanged

\* line 34
RcaFindErrorOrigin ==
    /\ rca.pc = "find_error_origin"
    /\ rca' = [rca EXCEPT
                  !.origin_analysis = _find_error_origin(catalog, rca.timeline, rca.intent),
                  !.pc = "analyze_dependency_chain"]
    /\ RcaUnchanged

\* line 37: the set of services with errors is iterated in some order.
RcaAnalyzeDependencyChain ==
    /\ rca.pc = "analyze_dependency_chain"
    /\ \E order \in Orders(reporting_services(catalog, rca.error_patterns)) :
          rca' = [rca EXCEPT
                     !.dependency_analysis =
                         _analyze_dependency_chain(catalog, rca.error_patterns, order),
                     !.pc = "rank_root_causes"]
    /\ RcaUnchanged

\* lines 40-50
RcaRankRootCauses ==
    /\ rca.pc = "rank_root_causes"
    /\ rca' = [rca EXCEPT
                  !.root_causes = _rank_root_causes(rca.error_patterns, rca.cascade_analysis,
                                                    rca.origin_analysis,
                                                    rca.dependency_analysis),
                  !.pc = "returned"]
    /\ RcaUnchanged

NextRCA ==
    \/ RcaExtractErrorPatterns
    \/ RcaBuildEventTimeline
    \/ RcaAnalyzeCascadePatterns
    \/ RcaFindErrorOrigin
    \/ RcaAnalyzeDependencyChain
    \/ RcaRankRootCauses

SpecRCA == InitRCA /\ [][NextRCA]_vars

\* The candidate causes of the call in hand, before sorting.
RcaCandidates ==
    candidate_causes(rca.error_patterns, rca.cascade_analysis, rca.origin_analysis,
                     rca.dependency_analysis)

\* C1: the list identify_root_causes returns holds no two causes of one
\* service, and at most five causes.
C1_UniqueServicesAtMostFive ==
    rca.pc = "returned" =>
       /\ \A a, b \in 1..Len(rca.root_causes) :
             a # b => rca.root_causes[a].service # rca.root_causes[b].service
       /\ Len(rca.root_causes) <= 5
       /\ \A c \in Range(RcaCandidates) :
             Len(rca.root_causes) < 5 =>
                \E k \in 1..Len(rca.root_causes) : rca.root_causes[k].service = c.service

\* C1 witness: six services had a candidate, one of them had two, and five
\* causes were returned.
C1_Witness ==
    /\ rca.pc = "returned"
    /\ Cardinality({c.service : c \in Range(RcaCandidates)}) = 6
    /\ Len(RcaCandidates) = 7
    /\ Len(rca.root_causes) = 5

\* The services with an error in the timeline of the call in hand.
TimelineServices == {rca.timeline[k].service : k \in 1..Len(rca.timeline)}

\* The timestamp of a service's first error in the timeline.
FirstErrorOf(s) ==
    rca.timeline[MinOf({k \in 1..Len(rca.timeline) : rca.timeline[k].service = s})].timestamp

DownstreamOf(a, b) == InList(b, get_downstream_dependencies(catalog, a))

\* a and b are the only services with timeline errors, b is declared
\* downstream of a and not a of b, and an error of b comes after a's first.
CascadePair(a, b) ==
    /\ TimelineServices = {a, b}
    /\ DownstreamOf(a, b)
    /\ ~DownstreamOf(b, a)
    /\ \E k \in 1..Len(rca.timeline) :
           /\ rca.timeline[k].service = b
           /\ rca.timeline[k].timestamp > FirstErrorOf(a)

\* The call reports a cascade with origin a and returns one cascade_origin
\* cause, for a, at 0.90.
CascadeReportedFrom(a) ==
    /\ rca.cascade_analysis.detected
    /\ rca.cascade_analysis.origin_service = <<a>>
    /\ Cardinality({k \in 1..Len(rca.root_causes) :
                       rca.root_causes[k].type = "cascade_origin"}) = 1
    /\ \A k \in 1..Len(rca.root_causes) :
           rca.root_causes[k].type = "cascade_origin" =>
              /\ rca.root_causes[k].service = a
              /\ rca.root_causes[k].confidence = 90

MaxEvidence == 3

EvidenceItem(relevance, service) == [relevance_score |-> relevance, service |-> service]

\* The relevances the extractor gives, an item without one, and two
\* relevances outside [0, 1].
EvidenceItems ==
    { EvidenceItem(<<90>>, Api), EvidenceItem(<<70>>, Db), EvidenceItem(<<75>>, << >>),
      EvidenceItem(<< >>, Api), EvidenceItem(<<-200>>, << >>), EvidenceItem(<<300>>, Db) }

EvidenceLists == UNION {[1..n -> EvidenceItems] : n \in 0..MaxEvidence}

ConfStep(findings) == [findings |-> findings]

ConfStepLists ==
    { << >>, <<ConfStep(<<"f">>)>>, <<ConfStep(<<"f">>), ConfStep(<< >>), ConfStep(<<"g">>)>> }

ConfRootCauses ==
    { << >>,
      <<RootCause(Db, 90, "cascade_origin"), RootCause(Api, 80, "frequent_error")>>,
      <<RootCause(Db, 85, "upstream_failure")>>,
      <<RootCause(Api, 70, "earliest_error"), RootCause(Db, 55, "frequent_error")>> }

Correlations(tx, temporal, historical) ==
    [transaction_correlations |-> tx, temporal_correlations |-> temporal,
     historical_matches |-> historical]

Match(similarity, resolution) ==
    [similarity |-> similarity, historical_resolution |-> resolution]

ConfCorrelations ==
    { << >>,
      <<Correlations(<< <<Api, Api>> >>, << >>, << >>)>>,
      <<Correlations(<< <<Api, Db>> >>, <<"cluster">>, <<Match(50, TRUE), Match(90, TRUE)>>)>>,
      <<Correlations(<< >>, <<"cluster">>, <<Match(30, FALSE), Match(60, FALSE)>>)>> }

NoFactors ==
    [evidence_quality |-> 0, evidence_quantity |-> 0, pattern_consistency |-> 0,
     service_correlation |-> 0, temporal_correlation |-> 0, historical_match |-> 0]

ConfStart(evidence, steps, root_causes, correlations) ==
    [pc |-> "assess_evidence", evidence |-> evidence, investigation_steps |-> steps,
     root_causes |-> root_causes, correlations |-> correlations,
     unit |-> Unit(evidence, root_causes), factors |-> NoFactors,
     final_score |-> 0, level |-> "none"]

InitConf ==
    /\ catalog = CatalogEmpty
    /\ gateway = GatewayIdle
    /\ OrchestratorAt("idle")
    /\ rca = RcaIdle
    /\ chain = ChainIdle
    /\ pat = PatIdle
    /\ cor = CorIdle
    /\ \E evidence \in EvidenceLists, steps \in ConfStepLists,
          root_causes \in ConfRootCauses, correlations \in ConfCorrelations :
          conf = ConfStart(evidence, steps, root_causes, correlations)

ConfUnchanged ==
    UNCHANGED << chain, pat, cor, rca, gateway, catalog, pc, intent, matched_services, historical_context,
                 hypotheses, idx, spl_query, investigation_steps, services_to_check,
                 upstream_service, additional_steps, step_number, result, raised, calls >>

\* lines 52-80
ConfAssessEvidence ==
    /\ conf.pc = "assess_evidence"
    /\ conf' = [conf EXCEPT
                   !.factors.evidence_quality =
                       _assess_evidence_quality(conf.evidence, conf.unit),
                   !.factors.evidence_quantity =
                       _assess_evidence_quantity(conf.evidence, conf.unit),
                   !.factors.pattern_consistency =
                       _assess_pattern_consistency(conf.evidence, conf.investigation_steps,
                                                   conf.unit),
                   !.pc = "assess_correlation"]
    /\ ConfUnchanged

\* lines 82-117
ConfAssessCorrelation ==
    /\ conf.pc = "assess_correlation"
    /\ conf' = [conf EXCEPT
                   !.factors.service_correlation =
                       _assess_service_correlation(conf.evidence, conf.root_causes,
                                                   conf.unit),
                   !.factors.temporal_correlation =
                       _assess_temporal_correlation(conf.correlations, conf.unit),
                   !.factors.historical_match =
                       _assess_historical_match(conf.correlations, conf.unit),
                   !.pc = "final_score"]
    /\ ConfUnchanged

\* lines 120-122
ConfFinalScore ==
    /\ conf.pc = "final_score"
    /\ LET total == clamp(weighted_sum(conf.factors), conf.unit)
       IN  \E up \in IF rounding_tie(total, conf.unit) THEN BOOLEAN ELSE {FALSE} :
              conf' = [conf EXCEPT !.final_score = round2(total, conf.unit, up),
                                   !.pc = "level"]
    /\ ConfUnchanged

\* lines 125-143
ConfLevel ==
    /\ conf.pc = "level"
    /\ conf' = [conf EXCEPT !.level = _get_confidence_level(conf.final_score),
                            !.pc = "returned"]
    /\ ConfUnchanged

NextConf ==
    \/ ConfAssessEvidence
    \/ ConfAssessCorrelation
    \/ ConfFinalScore
    \/ ConfLevel

SpecConf == InitConf /\ [][NextConf]_vars

\* C2: the score calculate_confidence returns lies in [0, 1], and its level
\* is very_high from 0.85, high from 0.70, medium from 0.50, low from 0.30
\* and very_low below.
C2_ScoreInRangeLevelIsBucket ==
    conf.pc = "returned" =>
       /\ conf.final_score \in 0..100
       /\ conf.level = CASE conf.final_score >= 85 -> "very_high"
                         [] conf.final_score \in 70..84 -> "high"
                         [] conf.final_score \in 50..69 -> "medium"
                         [] conf.final_score \in 30..49 -> "low"
                         [] OTHER -> "very_low"

\* C2 witness: a weighted sum below zero was scored 0.0, very_low.
C2_Witness ==
    /\ conf.pc = "returned"
    /\ weighted_sum(conf.factors) < 0
    /\ conf.final_score = 0
    /\ conf.level = "very_low"

\* The finding of the evidence_quantity factor's detail (lines 174-203).
quantity_finding(evidence) ==
    LET count == Len(evidence)
    IN  IF count = 0 THEN "No evidence items found"
        ELSE IF count <= 2 THEN "Limited evidence"
        ELSE IF count <= 5 THEN "Moderate evidence"
        ELSE IF count <= 10 THEN "Good evidence coverage"
        ELSE "Extensive evidence"

\* C14 as claimed: a call with no evidence returns the score 0.0 and the
\* level very_low, and its quantity factor says "No evidence items found".
C14_EmptyEvidenceScoresZero ==
    (conf.pc = "returned" /\ conf.evidence = << >>) =>
       /\ conf.final_score = 0
       /\ conf.level = "very_low"
       /\ quantity_finding(conf.evidence) = "No evidence items found"


(***************************************************************************)
(* One call of ServiceCatalog.get_dependency_chain.  The recursion of      *)
(* traverse is held as a stack: one frame per call in progress, holding    *)
(* the dependencies the call has still to go through, the innermost call   *)
(* last.  The outermost frame holds the call traverse(service_id).         *)
(***************************************************************************)
ChainCatalogs == {CatalogA, CatalogB, CatalogChain, CatalogSelf, CatalogEmpty}

\* The ids asked for: ids of the catalogs, an id in upper case and one
\* that no catalog resolves.
ChainIds == {Api, ApiU, Db, Mq, Ex, Zz}

Directions == {"upstream", "downstream"}

\* The names traverse goes on to from current_service, in order.
chain_deps(cat, current_service, direction) ==
    IF direction = "upstream"
    THEN LET deps == SelectSeq(get_upstream_dependencies(cat, current_service),
                               LAMBDA dep : dep.service # << >>)
         IN  [k \in 1..Len(deps) |-> deps[k].service]
    ELSE get_downstream_dependencies(cat, current_service)

\* A guard that never finds a service visited.
already_visited_never(current_service, visited) == FALSE

\* if current_service in visited
already_visited(current_service, visited) == current_service \in visited

ChainStart(service_id, direction) ==
    [pc |-> "traverse", service_id |-> service_id, direction |-> direction,
     visited |-> {}, chain |-> << >>, stack |-> << <<service_id>> >>, traversals |-> 0]

InitChain ==
    /\ catalog \in ChainCatalogs
    /\ gateway = GatewayIdle
    /\ OrchestratorAt("idle")
    /\ rca = RcaIdle
    /\ conf = ConfIdle
    /\ pat = PatIdle
    /\ cor = CorIdle
    /\ \E service_id \in ChainIds, direction \in Directions :
          chain = ChainStart(service_id, direction)

ChainUnchanged ==
    UNCHANGED << pat, cor, rca, conf, gateway, catalog, pc, intent, matched_services,
                 historical_context, hypotheses, idx, spl_query, investigation_steps,
                 services_to_check, upstream_service, additional_steps, step_number,
                 result, raised, calls >>

\* The frame of the innermost call, and the stack with that frame replaced.
ChainTop == chain.stack[Len(chain.stack)]
ChainWithTop(frame) == [chain.stack EXCEPT ![Len(chain.stack)] = frame]

\* lines 109-127: traverse is called on a service not yet visited.
ChainVisit ==
    /\ chain.pc = "traverse"
    /\ chain.stack # << >>
    /\ ChainTop # << >>
    /\ ~already_visited(Head(ChainTop), chain.visited)
    /\ chain' = [chain EXCEPT
                    !.visited = @ \cup {Head(ChainTop)},
                    !.chain = Append(@, Head(ChainTop)),
                    !.stack = Append(ChainWithTop(Tail(ChainTop)),
                                     chain_deps(catalog, Head(ChainTop), chain.direction)),
                    !.traversals = @ + 1]
    /\ ChainUnchanged

\* lines 109-111: traverse is called on a visited service and returns.
ChainSkipVisited ==
    /\ chain.pc = "traverse"
    /\ chain.stack # << >>
    /\ ChainTop # << >>
    /\ already_visited(Head(ChainTop), chain.visited)
    /\ chain' = [chain EXCEPT !.stack = ChainWithTop(Tail(ChainTop)),
                              !.traversals = @ + 1]
    /\ ChainUnchanged

\* A call of traverse has gone through its dependencies and returns.
ChainReturnFrame ==
    /\ chain.pc = "traverse"
    /\ Len(chain.stack) > 1
    /\ ChainTop = << >>
    /\ chain' = [chain EXCEPT !.stack = SubSeq(@, 1, Len(@) - 1)]
    /\ ChainUnchanged

\* lines 129-130
ChainReturn ==
    /\ chain.pc = "traverse"
    /\ chain.stack = << << >> >>
    /\ chain' = [chain EXCEPT !.stack = << >>, !.pc = "returned"]
    /\ ChainUnchanged

NextChain ==
    \/ ChainVisit
    \/ ChainSkipVisited
    \/ ChainReturnFrame
    \/ ChainReturn

SpecChain == InitChain /\ [][NextChain]_vars

\* b is a name traverse goes on to from a.
ChainEdge(a, b) == InList(b, chain_deps(catalog, a, chain.direction))

\* The names reachable from the names of S along such edges.
RECURSIVE ChainClosure(_)
ChainClosure(S) ==
    LET next == S \cup UNION {Range(chain_deps(catalog, a, chain.direction)) : a \in S}
    IN  IF next = S THEN S ELSE ChainClosure(next)

\* The position in the chain of the call that visited the k-th name.
ChainParent(k) ==
    MaxOf({d \in 1..(k - 1) : ChainEdge(chain.chain[d], chain.chain[k])})

\* The position of name b among the dependencies of name a.
ChainRank(a, b) ==
    LET deps == chain_deps(catalog, a, chain.direction)
    IN  MinOf({j \in 1..Len(deps) : deps[j] = b})

C17_UnknownIdYieldsEmpty ==
    (chain.pc = "returned" /\ find_service(catalog, chain.service_id) = << >>) =>
       /\ get_upstream_dependencies(catalog, chain.service_id) = << >>
       /\ get_downstream_dependencies(catalog, chain.service_id) = << >>
       /\ get_splunk_indexes(catalog, chain.service_id) = << >>
       /\ chain.chain = << >>


(***************************************************************************)
(* One call of ResultAnalyzer._extract_patterns, as analyze makes it on a  *)
(* result list that is not empty.                                          *)
(***************************************************************************)
\* Longest record list handed to the extractor.
MaxRecords == 3

H3 == <<"h", "3">>
H4 == <<"h", "4">>
H5 == <<"h", "5">>
H6 == <<"h", "6">>

\* The records a list is made of: records with both fields, with one, and
\* one with an internal field.
PatRecords ==
    { <<<<"level", Err>>, <<"host", H1>>>>,
      <<<<"level", Err>>, <<"host", H2>>>>,
      <<<<"level", Wrn>>, <<"host", H1>>>>,
      <<<<"host", H2>>>>,
      <<<<"_time", H1>>, <<"level", Wrn>>>> }

\* Eleven records whose host has six values, one of them in six records.
RWide ==
    [k \in 1..11 |->
        <<<<"host", CASE k = 7 -> H2 [] k = 8 -> H3 [] k = 9 -> H4 [] k = 10 -> H5
                      [] k = 11 -> H6 [] OTHER -> H1>>>>]

PatRecordLists == UNION {[1..n -> PatRecords] : n \in 1..MaxRecords} \cup {RWide}

\* The intent's hints: none, an entity, a symptom keyword.
PatIntents ==
    { Intent(<< >>, << >>, << >>, << >>),
      Intent(<< >>, << >>, <<H2>>, << >>),
      Intent(<< >>, << >>, << >>, <<Wrn>>) }

PatStart(results, it) ==
    [pc |-> "identify", results |-> results, intent |-> it, patterns |-> << >>]

InitPat ==
    /\ catalog = CatalogEmpty
    /\ gateway = GatewayIdle
    /\ OrchestratorAt("idle")
    /\ rca = RcaIdle
    /\ conf = ConfIdle
    /\ chain = ChainIdle
    /\ cor = CorIdle
    /\ \E results \in PatRecordLists, it \in PatIntents : pat = PatStart(results, it)

PatUnchanged ==
    UNCHANGED << chain, cor, rca, conf, gateway, catalog, pc, intent, matched_services,
                 historical_context, hypotheses, idx, spl_query, investigation_steps,
                 services_to_check, upstream_service, additional_steps, step_number,
                 result, raised, calls >>

\* lines 43-85
PatIdentify ==
    /\ pat.pc = "identify"
    /\ pat' = [pat EXCEPT !.patterns = low_cardinality_patterns(pat.results, pat.intent),
                          !.pc = "sort"]
    /\ PatUnchanged

\* lines 87-90
PatSort ==
    /\ pat.pc = "sort"
    /\ pat' = [pat EXCEPT !.patterns = sort_patterns(@), !.pc = "returned"]
    /\ PatUnchanged

NextPat ==
    \/ PatIdentify
    \/ PatSort

SpecPat == InitPat /\ [][NextPat]_vars

\* The values of a field in the records, and the records that hold a value.
PatValues(field) ==
    {kv[2] : kv \in {x \in Range(field_pairs(pat.results)) : x[1] = field}}

PatCount(field, v) ==
    Cardinality({k \in 1..Len(pat.results) : InList(<<field, v>>, pat.results[k])})

\* The fields of the records, in the order in which the records bring them.
PatFields ==
    Dedupe([k \in 1..Len(field_pairs(pat.results)) |-> field_pairs(pat.results)[k][1]])

PatFieldRank(field) == MinOf({k \in 1..Len(PatFields) : PatFields[k] = field})

\* v is the value of more than half of the records in a field of at most
\* five values.
Dominant(field, v) ==
    /\ v \in PatValues(field)
    /\ Cardinality(PatValues(field)) <= 5
    /\ 2 * PatCount(field, v) > Len(pat.results)

\* C18 as claimed: the first pattern returned is the dominant value of any
\* field that has one, with significance high.
C18_DominantValueIsTopPattern ==
    pat.pc = "returned" =>
       \A field \in Range(PatFields) : \A v \in PatValues(field) :
          Dominant(field, v) =>
             /\ pat.patterns # << >>
             /\ pat.patterns[1].field = field
             /\ pat.patterns[1].pattern = v
             /\ pat.patterns[1].significance = "high"

\* C18 amended: the dominant value of a field is returned as that field's
\* one pattern, with its count and significance high; the patterns ahead
\* of it are high as well, and are those that match the intent's hints when
\* it does not, and those of earlier fields that match the hints as it does.
C18_DominantValueIsHighPattern ==
    pat.pc = "returned" =>
       \A field \in Range(PatFields) : \A v \in PatValues(field) :
          Dominant(field, v) =>
             \E k \in 1..Len(pat.patterns) :
                /\ pat.patterns[k].field = field
                /\ \A j \in 1..Len(pat.patterns) : pat.patterns[j].field = field => j = k
                /\ pat.patterns[k].pattern = v
                /\ pat.patterns[k].count = PatCount(field, v)
                /\ pat.patterns[k].significance = "high"
                /\ \A j \in 1..Len(pat.patterns) :
                      j < k <=>
                         /\ pat.patterns[j].significance = "high"
                         /\ \/ pat.patterns[j].matches_intent /\ ~pat.patterns[k].matches_intent
                            \/ /\ pat.patterns[j].matches_intent = pat.patterns[k].matches_intent
                               /\ PatFieldRank(pat.patterns[j].field) < PatFieldRank(field)

\* C18 witness: err is the level of two records of three and no hint names
\* it; the pattern of host, which the intent names, was put ahead of it.
C18_Witness ==
    /\ pat.pc = "returned"
    /\ Len(pat.results) = 3
    /\ Dominant("level", Err)
    /\ Len(pat.patterns) = 2
    /\ pat.patterns[1].field = "host"
    /\ pat.patterns[1].matches_intent
    /\ pat.patterns[2].field = "level"
    /\ pat.patterns[2].pattern = Err
    /\ pat.patterns[2].significance = "high"

(***************************************************************************)
(* PatternCorrelation (src/analyzer/correlation.py) as the orchestrator    *)
(* runs it in _correlate_investigation_results: correlate_by_transaction,  *)
(* the filter to multi-event transactions, then correlate_by_time with a   *)
(* window of 60 seconds.                                                   *)
(*                                                                         *)
(* An event is a record with exactly the keys the event has (dict.get of   *)
(* an absent key gives None, here the empty Optional).  A timestamp string *)
(* is a record [text, iso]: text is the place of the string in string      *)
(* order, iso tells whether datetime.fromisoformat accepts it; for the ISO *)
(* strings of one format the string order is the time order, so text is    *)
(* also the parsed time in seconds.  The _raw text is the list of the      *)
(* field=id occurrences the regex of line 163 finds in it, in text order.  *)
(***************************************************************************)
MaxEvents == 5

Tx1 == <<"t", "1">>
Tx2 == <<"t", "2">>

IsoTime(seconds) == [text |-> seconds, iso |-> TRUE]
GarbageTime      == [text |-> 100000, iso |-> FALSE]

\* lines 15-19
CORRELATION_FIELDS ==
    << "transactionId", "transaction_id", "traceId", "trace_id",
       "correlationId", "correlation_id" >>

\* dict.get(key): the value as an Optional.
event_get(event, key) == IF key \in DOMAIN event THEN <<event[key]>> ELSE << >>

\* lines 129-131: the first of time, _time, timestamp that has a value.
_get_event_time_str(event) ==
    IF event_get(event, "time") # << >> THEN event_get(event, "time")
    ELSE IF event_get(event, "_time") # << >> THEN event_get(event, "_time")
    ELSE event_get(event, "timestamp")

\* lines 133-150: None for a missing string and for one no format accepts.
_parse_timestamp(timestamp_str) ==
    IF timestamp_str = << >> THEN << >>
    ELSE IF timestamp_str[1].iso THEN <<timestamp_str[1].text>>
    ELSE << >>

\* lines 152-169: the first alias with a non-empty direct field, else the
\* first alias whose pattern is found in _raw.
_extract_correlation_id(event) ==
    LET direct == {k \in 1..Len(CORRELATION_FIELDS) :
                      /\ CORRELATION_FIELDS[k] \in DOMAIN event
                      /\ event[CORRELATION_FIELDS[k]] # << >>}
        raw    == IF "_raw" \in DOMAIN event THEN event._raw ELSE << >>
        found  == {k \in 1..Len(CORRELATION_FIELDS) :
                      \E m \in 1..Len(raw) : raw[m].field = CORRELATION_FIELDS[k]}
    IN  IF direct # {} THEN <<event[CORRELATION_FIELDS[MinOf(direct)]]>>
        ELSE IF found # {}
        THEN LET field == CORRELATION_FIELDS[MinOf(found)]
                 m     == MinOf({n \in 1..Len(raw) : raw[n].field = field})
             IN  <<raw[m].id>>
        ELSE << >>

\* lines 78-82: the entry appended to a transaction.
transaction_entry(event) ==
    [event     |-> event,
     service   |-> IF "index" \in DOMAIN event THEN event.index
                   ELSE IF "source" \in DOMAIN event THEN event.source
                   ELSE <<"u", "n", "k", "n", "o", "w", "n">>,
     timestamp |-> _get_event_time_str(event)]

\* lines 70-82: the transactions in the order in which their ids are first
\* met (dict order), each with its entries in event order.
group_by_correlation_id(events) ==
    LET with_id == SelectSeq(events, LAMBDA e : _extract_correlation_id(e) # << >>)
        ids     == Dedupe([k \in 1..Len(with_id) |-> _extract_correlation_id(with_id[k])[1]])
    IN  [k \in 1..Len(ids) |->
            [id     |-> ids[k],
             events |-> LET mine == SelectSeq(with_id,
                                      LAMBDA e : _extract_correlation_id(e)[1] = ids[k])
                        IN  [n \in 1..Len(mine) |-> transaction_entry(mine[n])]]]

\* line 85: the sort key of an entry is its timestamp, None when the event
\* has none; comparing None with a string or with None raises TypeError,
\* and a list of two or more entries compares every entry at least once.
sort_raises(entries) ==
    /\ Len(entries) >= 2
    /\ \E n \in 1..Len(entries) : entries[n].timestamp = << >>

\* line 85
sort_by_timestamp(entries) ==
    IF \E n \in 1..Len(entries) : entries[n].timestamp = << >> THEN entries
    ELSE sort_ascending(entries, LAMBDA x : x.timestamp[1].text)

\* orchestrator.py line 401 with every transaction kept.
multi_event_any(entries) == TRUE

\* orchestrator.py line 401: if len(v) > 1
multi_event(entries) == Len(entries) > 1

\* line 33: the key is the timestamp string, or "" (before every string).
time_sort_key(event) ==
    IF _get_event_time_str(event) = << >> THEN 0
    ELSE _get_event_time_str(event)[1].text

AbsDiff(a, b) == IF a >= b THEN a - b ELSE b - a

Positions(n) == [k \in 1..n |-> k]

\* lines 40-54: the events within the window of the event at place i.
related_events(sorted_events, i, time_window_seconds) ==
    LET time_at(j) == _parse_timestamp(_get_event_time_str(sorted_events[j]))
        near(j)    == /\ j # i
                      /\ time_at(j) # << >>
                      /\ AbsDiff(time_at(i)[1], time_at(j)[1]) <= time_window_seconds
        js         == SelectSeq(Positions(Len(sorted_events)), near)
    IN  [k \in 1..Len(js) |->
            [event             |-> sorted_events[js[k]],
             time_diff_seconds |-> AbsDiff(time_at(i)[1], time_at(js[k])[1])]]

\* lines 35-61 over the sorted events.
temporal_clusters(sorted_events, time_window_seconds) ==
    LET anchor(i) == /\ _parse_timestamp(_get_event_time_str(sorted_events[i])) # << >>
                     /\ related_events(sorted_events, i, time_window_seconds) # << >>
        is        == SelectSeq(Positions(Len(sorted_events)), anchor)
    IN  [k \in 1..Len(is) |->
            [anchor_event     |-> sorted_events[is[k]],
             related_events   |-> related_events(sorted_events, is[k], time_window_seconds),
             correlation_type |-> "temporal"]]

\* The event kinds: an id in a direct field (with a second alias that the
\* first one shadows), the same id only in the raw text with the time
\* under the key time, no id, an id under traceId with no timestamp, and
\* no id with a timestamp no format accepts.
EvDirect   == [transactionId |-> Tx1, traceId |-> Tx2, index |-> I1,
               _time |-> IsoTime(10)]
EvRaw      == [_raw |-> << [field |-> "trace_id", id |-> Tx2],
                           [field |-> "transactionId", id |-> Tx1] >>,
               index |-> I2, time |-> IsoTime(40)]
EvNoId     == [index |-> I1, _time |-> IsoTime(200)]
EvNoTime   == [traceId |-> Tx2, source |-> I2]
EvBadTime  == [index |-> I2, _time |-> GarbageTime]

EventKinds == {EvDirect, EvRaw, EvNoId, EvNoTime, EvBadTime}

EventLists == UNION {[1..n -> EventKinds] : n \in 0..MaxEvents}

\* orchestrator.py lines 381-392
CorStart(events) ==
    [pc |-> "collected", all_events |-> events, transactions |-> << >>,
     transaction_correlations |-> << >>, sorted_events |-> << >>,
     temporal_correlations |-> << >>]

InitCor ==
    /\ catalog = CatalogEmpty
    /\ gateway = GatewayIdle
    /\ OrchestratorAt("idle")
    /\ rca = RcaIdle
    /\ conf = ConfIdle
    /\ chain = ChainIdle
    /\ pat = PatIdle
    /\ \E events \in EventLists : cor = CorStart(events)

CorUnchanged ==
    UNCHANGED << chain, pat, rca, conf, gateway, catalog, pc, intent, matched_services,
                 historical_context, hypotheses, idx, spl_query, investigation_steps,
                 services_to_check, upstream_service, additional_steps, step_number,
                 result, raised, calls >>

\* orchestrator.py lines 394-395: nothing to correlate.
CorNoEvents ==
    /\ cor.pc = "collected"
    /\ cor.all_events = << >>
    /\ cor' = [cor EXCEPT !.pc = "returned"]
    /\ CorUnchanged

\* correlation.py lines 70-82
CorGroup ==
    /\ cor.pc = "collected"
    /\ cor.all_events # << >>
    /\ cor' = [cor EXCEPT !.pc = "sort",
                          !.transactions = group_by_correlation_id(cor.all_events)]
    /\ CorUnchanged

\* correlation.py lines 84-85: the TypeError leaves correlate_by_transaction
\* and _correlate_investigation_results, which catch nothing.
CorSortRaises ==
    /\ cor.pc = "sort"
    /\ \E k \in 1..Len(cor.transactions) : sort_raises(cor.transactions[k].events)
    /\ cor' = [cor EXCEPT !.pc = "raised"]
    /\ CorUnchanged

\* correlation.py lines 84-91
CorSort ==
    /\ cor.pc = "sort"
    /\ \A k \in 1..Len(cor.transactions) : ~sort_raises(cor.transactions[k].events)
    /\ cor' = [cor EXCEPT !.pc = "filter",
                          !.transactions =
                              [k \in 1..Len(cor.transactions) |->
                                  [cor.transactions[k] EXCEPT
                                      !.events = sort_by_timestamp(@)]]]
    /\ CorUnchanged

\* orchestrator.py lines 398-402
CorFilter ==
    /\ cor.pc = "filter"
    /\ cor' = [cor EXCEPT !.pc = "temporal",
                          !.transaction_correlations =
                              SelectSeq(cor.transactions,
                                        LAMBDA t : multi_event(t.events))]
    /\ CorUnchanged

\* correlation.py lines 29-30: fewer than two events give no clusters.
CorTooFew ==
    /\ cor.pc = "temporal"
    /\ Len(cor.all_events) < 2
    /\ cor' = [cor EXCEPT !.pc = "returned"]
    /\ CorUnchanged

\* correlation.py line 33
CorSortByTime ==
    /\ cor.pc = "temporal"
    /\ Len(cor.all_events) >= 2
    /\ cor' = [cor EXCEPT !.pc = "cluster",
                          !.sorted_events = sort_ascending(cor.all_events, time_sort_key)]
    /\ CorUnchanged

\* correlation.py lines 35-63 and orchestrator.py lines 405-406
CorCluster ==
    /\ cor.pc = "cluster"
    /\ LET temporal == temporal_clusters(cor.sorted_events, 60)
       IN  cor' = [cor EXCEPT !.pc = "returned",
                              !.temporal_correlations =
                                  SubSeq(temporal, 1,
                                         IF Len(temporal) < 10 THEN Len(temporal) ELSE 10)]
    /\ CorUnchanged

NextCor ==
    \/ CorNoEvents
    \/ CorGroup
    \/ CorSortRaises
    \/ CorSort
    \/ CorFilter
    \/ CorTooFew
    \/ CorSortByTime
    \/ CorCluster

SpecCor == InitCor /\ [][NextCor]_vars

\* The transaction correlation has returned and the bundle is built.
CorBundled ==
    /\ cor.pc \in {"temporal", "cluster", "returned"}
    /\ cor.all_events # << >>

\* How often an event with the given correlation id occurs in the batch.
OccurrencesWithId(e, id) ==
    Cardinality({n \in 1..Len(cor.all_events) :
                    /\ cor.all_events[n] = e
                    /\ _extract_correlation_id(e) = <<id>>})

\* The ids the events of the batch carry.
BatchIds ==
    {_extract_correlation_id(cor.all_events[n])[1] :
        n \in {m \in 1..Len(cor.all_events) :
                  _extract_correlation_id(cor.all_events[m]) # << >>}}

\* The batch of the scenario: five events, exactly two of them with an id,
\* the same one.
FiveEventsTwoShareAnId ==
    /\ Len(cor.all_events) = 5
    /\ Cardinality({n \in 1..5 : _extract_correlation_id(cor.all_events[n]) # << >>}) = 2
    /\ Cardinality(BatchIds) = 1

Anomalous(e) == _parse_timestamp(_get_event_time_str(e)) = << >>

\* C20: with events whose timestamp is missing or unparseable in the batch,
\* the correlation run raises nothing, the anomalous events are in no
\* temporal cluster, and every two other events within 60 seconds of each
\* other are clustered.
C20_AnomalousTimestampsTolerated ==
    /\ cor.pc # "raised"
    /\ (cor.pc = "returned" /\ Len(cor.all_events) >= 2) =>
          /\ \A k \in 1..Len(cor.temporal_correlations) :
                LET c == cor.temporal_correlations[k]
                IN  /\ ~Anomalous(c.anchor_event)
                    /\ \A n \in 1..Len(c.related_events) :
                           ~Anomalous(c.related_events[n].event)
          /\ \A i, j \in 1..Len(cor.all_events) :
                (/\ i # j
                 /\ ~Anomalous(cor.all_events[i])
                 /\ ~Anomalous(cor.all_events[j])
                 /\ AbsDiff(_parse_timestamp(_get_event_time_str(cor.all_events[i]))[1],
                            _parse_timestamp(_get_event_time_str(cor.all_events[j]))[1]) <= 60)
                => \E k \in 1..Len(cor.temporal_correlations) :
                      /\ cor.temporal_correlations[k].anchor_event = cor.all_events[i]
                      /\ \E n \in 1..Len(cor.temporal_correlations[k].related_events) :
                            cor.temporal_correlations[k].related_events[n].event
                                = cor.all_events[j]

(***************************************************************************)
(* Historical recurrence (src/analyzer/correlation.py lines 93-126 and     *)
(* 171-257): the error-classified events of the current batch and of one   *)
(* historical incident are reduced to signatures, every pair is compared   *)
(* and the pairs at or above the threshold are kept, sorted by similarity. *)
(* Similarities are counted in sixtieths, in which every Jaccard overlap   *)
(* of sets with a union of at most four elements is a whole number.        *)
(***************************************************************************)

\* lines 171-179 with the raw text ignored.
_is_error_event_by_level(event) ==
    Lower(field_or(event, "level", field_or(event, "log_level", << >>))) \in ErrorLevels

\* lines 171-179
_is_error_event(event) ==
    LET level == Lower(IF "level" \in DOMAIN event THEN event.level
                       ELSE IF "log_level" \in DOMAIN event THEN event.log_level
                       ELSE << >>)
        raw   == Lower(IF "_raw" \in DOMAIN event THEN event._raw ELSE << >>)
    IN  \/ level \in {<<"e", "r", "r", "o", "r">>,
                      <<"f", "a", "t", "a", "l">>,
                      <<"c", "r", "i", "t", "i", "c", "a", "l">>}
        \/ \E x \in {<<"e", "r", "r", "o", "r">>,
                      <<"e", "x", "c", "e", "p", "t", "i", "o", "n">>,
                      <<"f", "a", "i", "l", "e", "d">>,
                      <<"f", "a", "i", "l", "u", "r", "e">>,
                      <<"t", "i", "m", "e", "o", "u", "t">>} : StrIn(x, raw)

\* lines 210-214
error_terms ==
    << <<"t", "i", "m", "e", "o", "u", "t">>,
       <<"c", "o", "n", "n", "e", "c", "t", "i", "o", "n", " ", "r", "e", "f", "u", "s", "e", "d">>,
       <<"n", "u", "l", "l", " ", "p", "o", "i", "n", "t", "e", "r">>,
       <<"o", "u", "t", " ", "o", "f", " ", "m", "e", "m", "o", "r", "y">>,
       <<"p", "e", "r", "m", "i", "s", "s", "i", "o", "n", " ", "d", "e", "n", "i", "e", "d">>,
       <<"n", "o", "t", " ", "f", "o", "u", "n", "d">>,
       <<"i", "n", "v", "a", "l", "i", "d">>,
       <<"f", "a", "i", "l", "e", "d">>,
       <<"e", "x", "c", "e", "p", "t", "i", "o", "n">>,
       <<"e", "r", "r", "o", "r">>,
       <<"f", "a", "t", "a", "l">>,
       <<"c", "r", "i", "t", "i", "c", "a", "l">>,
       <<"u", "n", "a", "u", "t", "h", "o", "r", "i", "z", "e", "d">>,
       <<"f", "o", "r", "b", "i", "d", "d", "e", "n">> >>

\* lines 204-219: the terms found in the lowered text, in the order of the list.
_extract_error_keywords(text) ==
    SelectSeq(error_terms, LAMBDA term : StrIn(term, Lower(text)))

WordChars ==
    {"a", "b", "c", "d", "e", "f", "g", "h", "i", "j", "k", "l", "m", "n", "o", "p",
     "q", "r", "s", "t", "u", "v", "w", "x", "y", "z", "A", "B", "C", "D", "E", "F",
     "G", "H", "I", "J", "K", "L", "M", "N", "O", "P", "Q", "R", "S", "T", "U", "V",
     "W", "X", "Y", "Z", "0", "1", "2", "3", "4", "5", "6", "7", "8", "9", "_"}

Digits == {"0", "1", "2", "3", "4", "5", "6", "7", "8", "9"}

\* lines 221-229: the set of the matches of \b[45]\d{2}\b.
_extract_error_codes(text) ==
    {SubSeq(text, k, k + 2) :
        k \in {j \in 1..(Len(text) - 2) :
                  /\ text[j] \in {"4", "5"}
                  /\ text[j + 1] \in Digits
                  /\ text[j + 2] \in Digits
                  /\ (j = 1 \/ text[j - 1] \notin WordChars)
                  /\ (j + 2 = Len(text) \/ text[j + 3] \notin WordChars)}}

\* lines 181-202
_extract_error_signatures(events) ==
    LET errors == SelectSeq(events, _is_error_event)
        raw(e) == field_or(e, "_raw", field_or(e, "message", << >>))
    IN  [k \in 1..Len(errors) |->
            [service        |-> field_or(errors[k], "index",
                                         field_or(errors[k], "source",
                                                  <<"u", "n", "k", "n", "o", "w", "n">>)),
             error_keywords |-> _extract_error_keywords(raw(errors[k])),
             error_codes    |-> _extract_error_codes(raw(errors[k]))]]

\* lines 239, 246 and 253: the weights 0.4, 0.4 and 0.2 in sixtieths.
SIMILARITY_WEIGHTS == [service |-> 24, error_keywords |-> 24, error_codes |-> 12]

\* lines 241-255: len(a & b) / len(a | b), times the weight.
weighted_overlap(weight, a, b) ==
    IF a # {} /\ b # {}
    THEN (weight * Cardinality(a \cap b)) \div Cardinality(a \cup b)
    ELSE 0

\* lines 231-257 with the keyword overlap left out.
_signature_similarity_without_keywords(sig1, sig2) ==
    (IF sig1.service = sig2.service THEN SIMILARITY_WEIGHTS.service ELSE 0)
    + weighted_overlap(SIMILARITY_WEIGHTS.error_codes, sig1.error_codes, sig2.error_codes)

\* lines 231-257
_signature_similarity(sig1, sig2) ==
    (IF sig1.service = sig2.service THEN SIMILARITY_WEIGHTS.service ELSE 0)
    + weighted_overlap(SIMILARITY_WEIGHTS.error_keywords,
                       Range(sig1.error_keywords), Range(sig2.error_keywords))
    + weighted_overlap(SIMILARITY_WEIGHTS.error_codes, sig1.error_codes, sig2.error_codes)

\* lines 106-121: the pairs of one incident at or above the threshold, for
\* each current signature every historical signature in turn.
incident_matches(current_signatures, incident, similarity_threshold) ==
    LET historical_signatures ==
            _extract_error_signatures(field_or(incident, "events", <<incident>>))
        pairs == Flatten([c \in 1..Len(current_signatures) |->
                             [h \in 1..Len(historical_signatures) |->
                                 <<current_signatures[c], historical_signatures[h]>>]])
        kept  == SelectSeq(pairs, LAMBDA pr :
                     _signature_similarity(pr[1], pr[2]) >= similarity_threshold)
    IN  [k \in 1..Len(kept) |->
            [current_signature     |-> kept[k][1],
             historical_signature  |-> kept[k][2],
             historical_incident   |-> incident,
             similarity            |-> _signature_similarity(kept[k][1], kept[k][2]),
             historical_resolution |-> field_or(incident, "resolution",
                                                field_or(incident, "answer", << >>))]]

MaxSigEvents == 2

\* The event kinds: an upper-case error level with a keyword and a code in
\* _raw; the same service and keyword with another code, under log_level
\* and message; an error by level only, with no keyword and no code; an
\* error by its raw text only, of another service; and an event whose
\* level hides an error log_level.
SigTimeout503 == [index |-> I1, level |-> <<"E", "R", "R", "O", "R">>, _raw |-> <<"t", "i", "m", "e", "o", "u", "t", " ", "5", "0", "3">>]
SigTimeout404 == [index |-> I1, log_level |-> <<"e", "r", "r", "o", "r">>, message |-> <<"t", "i", "m", "e", "o", "u", "t", " ", "x", "4", "0", "4", "0", " ", "4", "0", "4">>]
SigBare       == [index |-> I1, level |-> <<"f", "a", "t", "a", "l">>, _raw |-> <<"b", "o", "o", "m">>]
SigByRaw      == [source |-> I2, level |-> <<"i", "n", "f", "o">>, _raw |-> <<"f", "a", "i", "l", "e", "d", " ", "e", "r", "r", "o", "r", " ", "5", "0", "3">>]
SigHidden     == [index |-> I2, level |-> <<"i", "n", "f", "o">>, log_level |-> <<"e", "r", "r", "o", "r">>, _raw |-> <<"o", "k", " ", "2", "0", "0">>]

SigEventKinds == {SigTimeout503, SigTimeout404, SigBare, SigByRaw, SigHidden}

SigEventLists == UNION {[1..n -> SigEventKinds] : n \in 0..MaxSigEvents}

\* A historical incident is a record with its events, or a record without
\* the key events, which line 106 takes as its own single event.
IncidentKinds ==
    {SigTimeout404, SigBare} \cup {[events |-> <<SigTimeout404, SigBare>>, resolution |-> <<"r", "e", "s", "t", "a", "r", "t">>]}

IncidentLists == UNION {[1..n -> IncidentKinds] : n \in 0..MaxSigEvents}

\* lines 93-103; the orchestrator passes the threshold 0.5 (orchestrator.py
\* line 418), 30 sixtieths.
SimStart(current_events, historical_incidents) ==
    [pc |-> "signatures", current_events |-> current_events,
     historical_incidents |-> historical_incidents, similarity_threshold |-> 30,
     current_signatures |-> << >>, recurring |-> << >>]

InitSim ==
    /\ catalog = CatalogEmpty
    /\ gateway = GatewayIdle
    /\ OrchestratorAt("idle")
    /\ rca = RcaIdle
    /\ conf = ConfIdle
    /\ chain = ChainIdle
    /\ pat = PatIdle
    /\ \E current_events \in SigEventLists, historical_incidents \in IncidentLists :
           cor = SimStart(current_events, historical_incidents)

\* line 103
SimExtractSignatures ==
    /\ cor.pc = "signatures"
    /\ cor' = [cor EXCEPT !.pc = "compare",
                          !.current_signatures = _extract_error_signatures(cor.current_events)]
    /\ CorUnchanged

\* lines 105-121
SimCompare ==
    /\ cor.pc = "compare"
    /\ cor' = [cor EXCEPT !.pc = "sort",
                          !.recurring =
                              Flatten([k \in 1..Len(cor.historical_incidents) |->
                                          incident_matches(cor.current_signatures,
                                                           cor.historical_incidents[k],
                                                           cor.similarity_threshold)])]
    /\ CorUnchanged

\* lines 123-126
SimSort ==
    /\ cor.pc = "sort"
    /\ cor' = [cor EXCEPT !.pc = "returned",
                          !.recurring = sort_descending(cor.recurring,
                                                        LAMBDA x : x.similarity)]
    /\ CorUnchanged

NextSim ==
    \/ SimExtractSignatures
    \/ SimCompare
    \/ SimSort

SpecSim == InitSim /\ [][NextSim]_vars

\* The signatures of all historical incidents of the call.
HistoricalSignatures ==
    UNION {Range(_extract_error_signatures(
                     field_or(cor.historical_incidents[k], "events",
                              <<cor.historical_incidents[k]>>))) :
              k \in 1..Len(cor.historical_incidents)}

\* Same service, identical keyword sets and no error code in common.
SameServiceAndKeywords(sig1, sig2) ==
    /\ sig1.service = sig2.service
    /\ Range(sig1.error_keywords) = Range(sig2.error_keywords)
    /\ sig1.error_codes \cap sig2.error_codes = {}

\* C21 as stated: every pair of a current and a historical signature with
\* the same service, identical keyword sets and no error code in common has
\* similarity 0.8 (48 sixtieths) and is a match with that similarity.
C21_IdenticalKeywordsGiveFourFifths ==
    cor.pc = "returned" =>
        \A sig1 \in Range(cor.current_signatures), sig2 \in HistoricalSignatures :
            SameServiceAndKeywords(sig1, sig2) =>
                /\ _signature_similarity(sig1, sig2) = 48
                /\ \E k \in 1..Len(cor.recurring) :
                       /\ cor.recurring[k].current_signature = sig1
                       /\ cor.recurring[k].historical_signature = sig2
                       /\ cor.recurring[k].similarity = 48

\* C21: every pair of a current and a historical signature with the same
\* service, identical keyword sets that are not empty and no error code in
\* common has similarity 0.8 (48 sixtieths) and is a match with that
\* similarity; with the same service and two empty keyword sets the
\* similarity is 0.4 (24 sixtieths).
C21_IdenticalNonEmptyKeywordsGiveFourFifths ==
    cor.pc = "returned" =>
        \A sig1 \in Range(cor.current_signatures), sig2 \in HistoricalSignatures :
            SameServiceAndKeywords(sig1, sig2) =>
                IF sig1.error_keywords # << >>
                THEN /\ _signature_similarity(sig1, sig2) = 48
                     /\ \E k \in 1..Len(cor.recurring) :
                            /\ cor.recurring[k].current_signature = sig1
                            /\ cor.recurring[k].historical_signature = sig2
                            /\ cor.recurring[k].similarity = 48
                ELSE _signature_similarity(sig1, sig2) = 24

\* A timeout with code 503 matched against a historical timeout of the same
\* service with code 404: the one match, with similarity 0.8.
C21_Witness ==
    /\ cor.pc = "returned"
    /\ cor.current_events = <<SigTimeout503>>
    /\ cor.historical_incidents = <<SigTimeout404>>
    /\ Len(cor.recurring) = 1
    /\ cor.recurring[1].current_signature.error_codes = {<<"5", "0", "3">>}
    /\ cor.recurring[1].historical_signature.error_codes = {<<"4", "0", "4">>}
    /\ cor.recurring[1].current_signature.error_keywords = <<<<"t", "i", "m", "e", "o", "u", "t">>>>
    /\ cor.recurring[1].similarity = 48

\* The events the two predicates are applied to: the current events and
\* the events of the historical incidents.
ClassifiedEvents ==
    Range(cor.current_events)
    \cup UNION {Range(field_or(cor.historical_incidents[k], "events",
                               <<cor.historical_incidents[k]>>)) :
                   k \in 1..Len(cor.historical_incidents)}

\* C22: _is_error_event and _is_error_result give the same verdict for
\* every event, and the signatures extracted are those of the events that
\* _is_error_result classifies as errors.
C22_SameErrorVerdict ==
    cor.pc # "signatures" =>
        /\ \A e \in ClassifiedEvents : _is_error_event(e) <=> _is_error_result(e)
        /\ cor.current_signatures =
               _extract_error_signatures(SelectSeq(cor.current_events, _is_error_result))
        /\ Len(cor.current_signatures) =
               Len(SelectSeq(cor.current_events, _is_error_result))

\* An error by raw text only and a non-error whose level hides an error
\* log_level, both classified, one signature extracted.
C22_Witness ==
    /\ cor.pc = "returned"
    /\ cor.current_events = <<SigByRaw, SigHidden>>
    /\ _is_error_event(SigByRaw)
    /\ ~_is_error_event(SigHidden)
    /\ Len(cor.current_signatures) = 1

(***************************************************************************)
(* Concurrent requests (src/gateway/main.py lines 57-100 and the primary   *)
(* loop of investigate, orchestrator.py lines 129-181).  The event loop    *)
(* runs one request until it awaits a collaborator; another request may    *)
(* run before the collaborator answers.  Objects live in heaps: the        *)
(* orchestrators the gateway constructs, with the connection flag of       *)
(* their Splunk client, and the step lists; a frame holds references.      *)
(* The phases before line 129 build no step and keep their values in       *)
(* locals; a request comes with its hypotheses and, for each, the answers  *)
(* its collaborators will give.                                            *)
(***************************************************************************)
Callers == {1, 2}

\* The answers of the collaborators for one hypothesis: the query the LLM
\* writes, the outcome of the search and the records found.
GwResponses ==
    { [query |-> QSafe,   outcome |-> "ok",             records |-> RTwoHigh],
      [query |-> QSafe,   outcome |-> "connect_failed", records |-> RNone],
      [query |-> QDelete, outcome |-> "ok",             records |-> RNone] }

GwScripts == UNION {[1..n -> GwResponses] : n \in 1..MaxHyp}

\* A constructor or a list display with every object in the same place.
new_object_reused(heap) == 1

\* A constructor call or a list display makes a new object.
new_object(heap) == Len(heap) + 1

\* The heap with the object at the reference set.
Store(heap, ref, object) ==
    IF ref > Len(heap) THEN Append(heap, object) ELSE [heap EXCEPT ![ref] = object]

\* The step of hypothesis k of a request, as lines 145-181 build it.
GwAnalysis(response) ==
    LET e == execute_query(response.outcome, response.records)
    IN  analyze(IF e[1] = "ok" THEN e[2] ELSE EmptyResults, NoIntent)

GwStep(c, k, response) ==
    Step(k, <<c, k>>, << >>, generate_query(response.query)[2],
         GwAnalysis(response).findings)

\* orchestrator.py lines 129-181 run without interruption from hypothesis k
\* on: the steps, and whether generate_query raised.
RECURSIVE investigate_alone(_, _, _, _)
investigate_alone(c, script, k, steps) ==
    IF k > Len(script) THEN [investigation_steps |-> steps, raised |-> FALSE]
    ELSE IF generate_query(script[k].query)[1] # "ok"
    THEN [investigation_steps |-> steps, raised |-> TRUE]
    ELSE IF stops_loop(GwAnalysis(script[k]))
    THEN [investigation_steps |-> Append(steps, GwStep(c, k, script[k])), raised |-> FALSE]
    ELSE investigate_alone(c, script, k + 1, Append(steps, GwStep(c, k, script[k])))

\* main.py line 59: the request is received.
GwFrame(script) ==
    [pc |-> "received", script |-> script, self |-> 0, investigation_steps |-> 0,
     idx |-> 0, spl_query |-> "none", result |-> << >>]

InitGateway ==
    /\ catalog = CatalogEmpty
    /\ OrchestratorAt("idle")
    /\ rca = RcaIdle
    /\ conf = ConfIdle
    /\ chain = ChainIdle
    /\ pat = PatIdle
    /\ cor = CorIdle
    /\ \E scripts \in [Callers -> GwScripts] :
          gateway = [frames        |-> [c \in Callers |-> GwFrame(scripts[c])],
                     orchestrators |-> << >>,
                     lists         |-> << >>]

GatewayUnchanged ==
    UNCHANGED << chain, pat, cor, rca, conf, catalog, pc, intent, matched_services,
                 historical_context, hypotheses, idx, spl_query, investigation_steps,
                 services_to_check, upstream_service, additional_steps, step_number,
                 result, raised, calls >>

\* main.py lines 62-63 and orchestrator.py lines 24-33 and 129-132: the
\* gateway constructs an orchestrator, investigate makes its step list and
\* enters the loop, up to the await of generate_query.
GwQuery(c) ==
    /\ gateway.frames[c].pc = "received"
    /\ LET orchestrator == new_object(gateway.orchestrators)
           steps        == new_object(gateway.lists)
       IN  gateway' =
             [gateway EXCEPT
                !.orchestrators = Store(@, orchestrator, [_connected |-> FALSE]),
                !.lists         = Store(@, steps, << >>),
                !.frames[c]     = [@ EXCEPT !.pc = "primary_generate",
                                            !.self = orchestrator,
                                            !.investigation_steps = steps,
                                            !.idx = 1]]
    /\ GatewayUnchanged

\* orchestrator.py lines 136-146 and main.py lines 98-100: generate_query
\* answers; a ValidationError leaves investigate and the gateway answers
\* with status 500.
GwGenerateQuery(c) ==
    /\ gateway.frames[c].pc = "primary_generate"
    /\ LET frame == gateway.frames[c]
           g     == generate_query(frame.script[frame.idx].query)
       IN  gateway' =
             [gateway EXCEPT
                !.frames[c] = IF g[1] = "ok"
                              THEN [@ EXCEPT !.pc = "primary_execute", !.spl_query = g[2]]
                              ELSE [@ EXCEPT !.pc = "failed"]]
    /\ GatewayUnchanged

\* orchestrator.py lines 146-181 and client.py lines 26-84: execute_query
\* answers, the client of this orchestrator is connected if the search
\* went through, the step is appended to the list of this call, and the
\* loop goes on or ends.
GwExecuteQuery(c) ==
    /\ gateway.frames[c].pc = "primary_execute"
    /\ LET frame    == gateway.frames[c]
           response == frame.script[frame.idx]
           analysis == GwAnalysis(response)
           last     == stops_loop(analysis) \/ frame.idx = Len(frame.script)
       IN  gateway' =
             [gateway EXCEPT
                !.orchestrators[frame.self]._connected = @ \/ response.outcome = "ok",
                !.lists[frame.investigation_steps] =
                    Append(@, Step(frame.idx, <<c, frame.idx>>, << >>, frame.spl_query,
                                   analysis.findings)),
                !.frames[c] = [@ EXCEPT !.pc = IF last THEN "finish" ELSE "primary_generate",
                                        !.idx = IF last THEN @ ELSE @ + 1,
                                        !.spl_query = "none"]]
    /\ GatewayUnchanged

\* orchestrator.py lines 236-256 and main.py lines 69-96: the result takes
\* the step list as it is when investigate returns.
GwReturn(c) ==
    /\ gateway.frames[c].pc = "finish"
    /\ gateway' =
         [gateway EXCEPT
            !.frames[c] = [@ EXCEPT !.pc = "done",
                                    !.result = <<[investigation_steps |->
                                        gateway.lists[gateway.frames[c].investigation_steps]]>>]]
    /\ GatewayUnchanged

NextGateway ==
    \/ \E c \in Callers : GwQuery(c)
    \/ \E c \in Callers : GwGenerateQuery(c)
    \/ \E c \in Callers : GwExecuteQuery(c)
    \/ \E c \in Callers : GwReturn(c)

SpecGateway == InitGateway /\ [][NextGateway]_vars

\* The step list of a request that has entered investigate.
GwSteps(c) == gateway.lists[gateway.frames[c].investigation_steps]

GwAlone(c) == investigate_alone(c, gateway.frames[c].script, 1, << >>)

\* C23: at every point of every interleaving of two requests, each on the
\* orchestrator and with the step list made for it, a request's step list
\* is the beginning of the list it builds when it runs alone with the same
\* answers and holds only its own steps; when it returns, its result is
\* the whole list of the run alone; it fails only when the run alone
\* fails, with the same steps; and the two requests share neither orchestrator nor list.
C23_ConcurrentCallsDoNotInterfere ==
    /\ \A c \in Callers :
          gateway.frames[c].pc # "received" =>
              LET alone == GwAlone(c)
                  steps == GwSteps(c)
              IN  /\ Len(steps) <= Len(alone.investigation_steps)
                  /\ steps = SubSeq(alone.investigation_steps, 1, Len(steps))
                  /\ \A k \in 1..Len(steps) : steps[k].hypothesis[1] = c
                  /\ gateway.frames[c].pc \in {"finish", "done"} =>
                        steps = alone.investigation_steps /\ ~alone.raised
                  /\ gateway.frames[c].pc = "done" =>
                        gateway.frames[c].result =
                            <<[investigation_steps |-> alone.investigation_steps]>>
                  /\ gateway.frames[c].pc = "failed" =>
                        (alone.raised /\ steps = alone.investigation_steps)
    /\ \A c, d \in Callers :
          (c # d /\ gateway.frames[c].pc # "received" /\ gateway.frames[d].pc # "received") =>
              /\ gateway.frames[c].self # gateway.frames[d].self
              /\ gateway.frames[c].investigation_steps # gateway.frames[d].investigation_steps

\* Both requests are inside their loops, each with one step in its list
\* and its second query awaiting execution.
C23_Witness ==
    /\ \A c \in Callers :
          /\ gateway.frames[c].pc = "primary_execute"
          /\ gateway.frames[c].idx = 2
          /\ Len(GwSteps(c)) = 1
          /\ GwSteps(c)[1].hypothesis = <<c, 1>>
    /\ gateway.frames[1].self # gateway.frames[2].self

(***************************************************************************)
(* Further properties of RCAEngine.identify_root_causes, over SpecRCA.      *)
(***************************************************************************)

\* The services of the timeline, in the order of the per-service error
\* groups, that have a declared downstream service with a later error.
QualifyingOrigins ==
    SelectSeq(Dedupe([k \in 1..Len(rca.timeline) |-> rca.timeline[k].service]),
              LAMBDA service : cascade_links(catalog, rca.timeline, service) # << >>)

\* C24: when services qualify as cascade origins, the origin_service
\* reported is the first of them in the order of the per-service error
\* groups.
C24_FirstOriginWins ==
    rca.pc = "returned" =>
        (QualifyingOrigins # << >> =>
            /\ rca.cascade_analysis.detected
            /\ rca.cascade_analysis.origin_service = <<QualifyingOrigins[1]>>)

\* The owning service of every item from which an error pattern is made: for
\* each step its high and medium findings, then its error records.
RECURSIVE owning_services(_, _)
owning_services(cat, steps) ==
    IF steps = << >> THEN << >>
    ELSE LET findings == SelectSeq(Head(steps).findings,
                                   LAMBDA f : f.significance \in {"high", "medium"})
             results  == SelectSeq(Head(steps).results, _is_error_result)
         IN  [k \in 1..Len(findings) |-> _index_to_service(cat, findings[k].index)]
                \o [k \in 1..Len(results) |-> _index_to_service(cat, results[k].index)]
                \o owning_services(cat, Tail(steps))

\* C27: every error pattern, from a finding or from an error record, is
\* tagged with the service that owns the item's index, or with the index
\* when no service owns it; so the pattern of an error record carries the
\* tag its timeline entry carries.
C27_PatternsTaggedWithOwner ==
    rca.pc = "returned" =>
        /\ [k \in 1..Len(rca.error_patterns) |-> rca.error_patterns[k].service]
               = owning_services(catalog, rca.steps)
        /\ \A k \in 1..Len(rca.error_patterns) :
               (rca.error_patterns[k].type = "error_log"
                    /\ rca.error_patterns[k].timestamp # 0) =>
                   \E n \in 1..Len(rca.timeline) :
                       /\ rca.timeline[n].timestamp = rca.error_patterns[k].timestamp
                       /\ rca.timeline[n].service = rca.error_patterns[k].service

\* The priority of a cause type: the order in which the causes are built.
TypePriority(type) ==
    CASE type = "cascade_origin"   -> 1
      [] type = "upstream_failure" -> 2
      [] type = "earliest_error"   -> 3
      [] type = "frequent_error"   -> 4

\* C25: the ranked list is in non-increasing order of confidence, and of two
\* entries of equal confidence the one of the type built earlier (cascade
\* origin, upstream failure, earliest error, frequent error) comes first.
C25_RankedByConfidenceThenType ==
    rca.pc = "returned" =>
        \A j, k \in 1..Len(rca.root_causes) :
            j < k =>
                /\ rca.root_causes[j].confidence >= rca.root_causes[k].confidence
                /\ rca.root_causes[j].confidence = rca.root_causes[k].confidence =>
                       TypePriority(rca.root_causes[j].type)
                           <= TypePriority(rca.root_causes[k].type)

\* A ranked list with two causes of equal confidence and different types,
\* and a cause of lower confidence after them.
C25_Witness ==
    /\ rca.pc = "returned"
    /\ \E j, k \in 1..Len(rca.root_causes) :
          /\ j < k
          /\ rca.root_causes[j].confidence = rca.root_causes[k].confidence
          /\ TypePriority(rca.root_causes[j].type) < TypePriority(rca.root_causes[k].type)
    /\ \E j, k \in 1..Len(rca.root_causes) :
          j < k /\ rca.root_causes[j].confidence > rca.root_causes[k].confidence

\* C26: every entry of the ranked output is a candidate built for its
\* service, no candidate of that service has a greater confidence, and the
\* service has one entry only.
C26_SurvivorHasGreatestConfidence ==
    rca.pc = "returned" =>
        \A k \in 1..Len(rca.root_causes) :
            /\ rca.root_causes[k] \in Range(RcaCandidates)
            /\ \A n \in 1..Len(RcaCandidates) :
                   RcaCandidates[n].service = rca.root_causes[k].service =>
                       RcaCandidates[n].confidence <= rca.root_causes[k].confidence
            /\ \A j \in 1..Len(rca.root_causes) :
                   rca.root_causes[j].service = rca.root_causes[k].service => j = k

\* A service with two candidates of different confidence, of which the
\* output holds the greater.
C26_Witness ==
    /\ rca.pc = "returned"
    /\ \E k \in 1..Len(rca.root_causes), n \in 1..Len(RcaCandidates) :
          /\ RcaCandidates[n].service = rca.root_causes[k].service
          /\ RcaCandidates[n].confidence < rca.root_causes[k].confidence

(***************************************************************************)
(* A further property of ConfidenceScorer.calculate_confidence, over        *)
(* SpecConf.                                                                *)
(***************************************************************************)

\* C28: the service-correlation factor is 0.95 with a cascade_origin cause,
\* else 0.85 with an upstream_failure cause, else 0.8 times the average
\* confidence of the causes, and 0.4 when there is no cause at all.
C28_ServiceCorrelationFactor ==
    conf.pc \in {"final_score", "level", "returned"} =>
        conf.factors.service_correlation =
            IF conf.root_causes = << >> THEN Hundredths(40, conf.unit)
            ELSE IF \E k \in 1..Len(conf.root_causes) :
                        conf.root_causes[k].type = "cascade_origin"
            THEN Hundredths(95, conf.unit)
            ELSE IF \E k \in 1..Len(conf.root_causes) :
                        conf.root_causes[k].type = "upstream_failure"
            THEN Hundredths(85, conf.unit)
            ELSE (8 * SumOf([k \in 1..Len(conf.root_causes) |->
                                conf.root_causes[k].confidence])
                    * (conf.unit \div 1000)) \div Len(conf.root_causes)

(***************************************************************************)
(* Further properties of investigate, over Spec and its fair version.       *)
(***************************************************************************)

\* C29: whenever the result asks the user for a service, investigate is
\* done and the one collaborator called was the intent extractor; no
\* history retrieval, hypothesis generation, query synthesis or execution,
\* local analysis, answer synthesis or memory store was called.
C29_EarlyExitCallsOnlyIntentExtractor ==
    result.requires_user_input =>
        /\ pc = "done"
        /\ Len(calls) = 1
        /\ calls[1].op = "extract_intent"
        /\ historical_context = << >>
        /\ hypotheses = << >>
        /\ spl_query = "none"

\* The intent names nothing, investigate has returned the request for a
\* service, and the log of calls holds the intent extraction only.
C29_Witness ==
    /\ pc = "done"
    /\ result.requires_user_input
    /\ intent.services = << >>
    /\ catalog # CatalogEmpty
    /\ calls = <<Call("extract_intent", "plan", << >>, FALSE)>>

\* investigate with every collaborator call returning or failing in the
\* end: a step that can be taken is taken.
SpecFair == Spec /\ WF_vars(Next)

\* investigate has returned or has raised.
Finished == pc \in {"done", "raised"}

\* The upstream services the matched services declare, by name.
DeclaredUpstreamNames ==
    {d.service : d \in upstream_deps(catalog, matched_services)}

\* No query was asked for twice: two calls of one operation in one phase
\* have different subjects.
NoCallRepeated ==
    \A j, k \in 1..Len(calls) :
        (/\ j < k
         /\ calls[j].op \in {"generate_query", "execute_query"}
         /\ calls[j].op = calls[k].op
         /\ calls[j].phase = calls[k].phase) => calls[j].subject # calls[k].subject

\* C30: every investigate call finishes in the end, and at every moment it
\* has made at most one primary step per hypothesis and at most one
\* upstream step per upstream service the matched services declare, and
\* has asked for no query twice.
C30_FinishesWithinBounds ==
    /\ <>Finished
    /\ [](/\ Len(PrimarySteps) <= Len(hypotheses)
          /\ Len(UpstreamSteps) <= Cardinality(DeclaredUpstreamNames)
          /\ Len(CallsOf("generate_query", "primary")) <= Len(hypotheses)
          /\ Len(CallsOf("generate_query", "upstream"))
                 <= Cardinality(DeclaredUpstreamNames)
          /\ NoCallRepeated)

\* investigate has returned after a step for each of two hypotheses and a
\* step for each of two upstream services.
C30_Witness ==
    /\ pc = "done"
    /\ ~result.requires_user_input
    /\ Len(hypotheses) = 2
    /\ Len(PrimarySteps) = 2
    /\ Cardinality(DeclaredUpstreamNames) = 2
    /\ Len(UpstreamSteps) = 2

=============================================================================
